---------------------------- MODULE Spec2Model ----------------------------
(***************************************************************************)
(* realtime-grid: the claim/release coordination engine of the grid        *)
(* server (server/internal/grid, server/internal/api).                     *)
(*                                                                         *)
(* Strings that the code builds or parses (coordinate keys, the dimension  *)
(* list of the grid metadata, JSON texts) are sequences of one-character   *)
(* strings, so that formatting and parsing are computed, not assumed.      *)
(***************************************************************************)
EXTENDS Integers, Sequences, FiniteSets, TLC

(***************************************************************************)
(* Bounds of the model.                                                    *)
(***************************************************************************)
\* largest coordinate component a request may carry (the smallest is -1)
MaxCoord == 1
\* how many Redis commands may fail in a behaviour with failures
MaxFaults == 1
\* number of handlers racing in SpecRace
NumRacers == 3

(***************************************************************************)
(* strconv.Itoa / strconv.Atoi, strings.Join / strings.Split               *)
(***************************************************************************)
Digits == <<"0", "1", "2", "3", "4", "5", "6", "7", "8", "9">>

IsDigit(ch) == \E i \in 1..10 : Digits[i] = ch

DigitVal(ch) == (CHOOSE i \in 1..10 : Digits[i] = ch) - 1

RECURSIVE Itoa(_)
Itoa(n) ==
  IF n < 0 THEN <<"-">> \o Itoa(-n)
  ELSE IF n < 10 THEN <<Digits[n + 1]>>
  ELSE Itoa(n \div 10) \o <<Digits[(n % 10) + 1]>>

RECURSIVE DigitsVal(_)
DigitsVal(s) ==
  IF s = <<>> THEN 0
  ELSE 10 * DigitsVal(SubSeq(s, 1, Len(s) - 1)) + DigitVal(s[Len(s)])

\* strconv.Atoi: an optional sign followed by at least one digit, nothing else
Atoi(s) ==
  LET body == IF s # <<>> /\ s[1] \in {"-", "+"} THEN Tail(s) ELSE s
      neg  == s # <<>> /\ s[1] = "-"
  IN  IF body = <<>> \/ \E i \in 1..Len(body) : ~IsDigit(body[i])
      THEN [err |-> TRUE, n |-> 0]
      ELSE [err |-> FALSE, n |-> IF neg THEN -DigitsVal(body) ELSE DigitsVal(body)]

RECURSIVE Join(_, _)
Join(parts, sep) ==
  IF parts = <<>> THEN <<>>
  ELSE IF Len(parts) = 1 THEN parts[1]
  ELSE parts[1] \o <<sep>> \o Join(Tail(parts), sep)

\* strings.Split(s, sep) for a one-character separator: always at least one part
RECURSIVE Split(_, _)
Split(s, sep) ==
  IF \A i \in 1..Len(s) : s[i] # sep THEN <<s>>
  ELSE LET i == CHOOSE j \in 1..Len(s) :
                  s[j] = sep /\ \A k \in 1..(j - 1) : s[k] # sep
       IN  <<SubSeq(s, 1, i - 1)>> \o Split(SubSeq(s, i + 1, Len(s)), sep)

(***************************************************************************)
(* model.go: the coordinate codec                                          *)
(***************************************************************************)
\* the numbers written one after the other, with nothing between them
RECURSIVE Concat(_)
Concat(parts) == IF parts = <<>> THEN <<>> ELSE parts[1] \o Concat(Tail(parts))

CoordKeyNoSeparator(coord) == Concat([i \in 1..Len(coord) |-> Itoa(coord[i])])

\* CoordKey turns [x,y,z] into "x:y:z"
CoordKey(coord) == Join([i \in 1..Len(coord) |-> Itoa(coord[i])], ":")

\* ParseCoordKey splitting at "," as the dimensions of a grid are split
ParseCoordKeySplitComma(key) ==
  IF key = <<>> THEN [err |-> FALSE, coord |-> <<>>]
  ELSE LET parts == Split(key, ",")
       IN  IF \E i \in 1..Len(parts) : Atoi(parts[i]).err
           THEN [err |-> TRUE, coord |-> <<>>]
           ELSE [err |-> FALSE, coord |-> [i \in 1..Len(parts) |-> Atoi(parts[i]).n]]

\* ParseCoordKey turns "x:y:z" back into []int; "" gives (nil, nil)
ParseCoordKey(key) ==
  IF key = <<>> THEN [err |-> FALSE, coord |-> <<>>]
  ELSE LET parts == Split(key, ":")
       IN  IF \E i \in 1..Len(parts) : Atoi(parts[i]).err
           THEN [err |-> TRUE, coord |-> <<>>]
           ELSE [err |-> FALSE, coord |-> [i \in 1..Len(parts) |-> Atoi(parts[i]).n]]

(***************************************************************************)
(* Values: what encoding/json decodes a request's "value" into             *)
(* (interface{}): a string, a number or nil.                               *)
(***************************************************************************)
Str(s) == [t |-> "string", s |-> s, n |-> 0]
Num(n) == [t |-> "number", s |-> <<>>, n |-> n]
Null == [t |-> "nil", s |-> <<>>, n |-> 0]

\* the claim payloads and default values that requests carry
Values == {Str(<<"7">>), Num(7)}

\* json.Marshal of a value
JsonMarshal(v) ==
  IF v.t = "nil" THEN <<"n", "u", "l", "l">>
  ELSE IF v.t = "number" THEN Itoa(v.n)
  ELSE <<"\"">> \o v.s \o <<"\"">>

\* json.Unmarshal into an interface{}: null, a string literal or an integer
\* literal; anything else is a syntax error
JsonUnmarshal(text) ==
  LET isNull == text = <<"n", "u", "l", "l">>
      isStr  == /\ Len(text) >= 2
                /\ text[1] = "\"" /\ text[Len(text)] = "\""
                /\ \A i \in 2..(Len(text) - 1) : text[i] # "\""
      digits == IF text # <<>> /\ text[1] = "-" THEN Tail(text) ELSE text
      isNum  == /\ digits # <<>>
                /\ \A i \in 1..Len(digits) : IsDigit(digits[i])
                /\ (Len(digits) > 1 => digits[1] # "0")
  IN  IF isNull THEN [err |-> FALSE, v |-> Null]
      ELSE IF isStr THEN [err |-> FALSE, v |-> Str(SubSeq(text, 2, Len(text) - 1))]
      ELSE IF isNum THEN [err |-> FALSE, v |-> Num(Atoi(text).n)]
      ELSE [err |-> TRUE, v |-> Null]

(***************************************************************************)
(* store.go: errors, and the checks every store method repeats             *)
(***************************************************************************)
NoErr == "nil"
ErrGridNotFound == "grid not found"
ErrDimensionMismatch == "coord dimension mismatch"
ErrOutOfBounds == "coord out of bounds"
ErrCellAlreadySet == "cell already set"
ErrDimensionsRequired == "dimensions required"
ErrDimensionsPositive == "dimensions must be > 0"

\* the empty map
EmptyMap == [k \in {} |-> Null]

MapPut(m, k, v) == [x \in DOMAIN m \cup {k} |-> IF x = k THEN v ELSE m[x]]

MapDelete(m, k) == [x \in DOMAIN m \ {k} |-> m[x]]

\* the orders in which a range over a Go map may visit the keys in S
Orders(S) ==
  {o \in [1..Cardinality(S) -> S] : \A i, j \in DOMAIN o : i # j => o[i] # o[j]}

\* the check with "d < 0" for "d <= 0"
CheckDimensionsNonNegative(dims) ==
  IF Len(dims) = 0 THEN ErrDimensionsRequired
  ELSE IF \E i \in 1..Len(dims) : dims[i] < 0 THEN ErrDimensionsPositive
  ELSE NoErr

\* CreateGrid's check of the dimensions
CheckDimensions(dims) ==
  IF Len(dims) = 0 THEN ErrDimensionsRequired
  ELSE IF \E i \in 1..Len(dims) : dims[i] <= 0 THEN ErrDimensionsPositive
  ELSE NoErr

\* the bounds check with "c > dim" for "c >= dim"
ValidateCoordInclusive(dims, coord) ==
  IF Len(coord) # Len(dims) THEN ErrDimensionMismatch
  ELSE IF \E i \in 1..Len(coord) : coord[i] < 0 \/ coord[i] > dims[i]
       THEN ErrOutOfBounds
  ELSE NoErr

\* the bounds check without "c < 0"
ValidateCoordNoLower(dims, coord) ==
  IF Len(coord) # Len(dims) THEN ErrDimensionMismatch
  ELSE IF \E i \in 1..Len(coord) : coord[i] >= dims[i]
       THEN ErrOutOfBounds
  ELSE NoErr

\* the bounds of the components both have, checked before the length
ValidateCoordBoundsFirst(dims, coord) ==
  IF \E i \in 1..Len(coord) : i <= Len(dims) /\ (coord[i] < 0 \/ coord[i] >= dims[i])
  THEN ErrOutOfBounds
  ELSE IF Len(coord) # Len(dims) THEN ErrDimensionMismatch
  ELSE NoErr

\* the dimension and bounds check of SetCell and ReleaseCell
ValidateCoord(dims, coord) ==
  IF Len(coord) # Len(dims) THEN ErrDimensionMismatch
  ELSE IF \E i \in 1..Len(coord) : coord[i] < 0 \/ coord[i] >= dims[i]
       THEN ErrOutOfBounds
  ELSE NoErr

NoGrid == [ID |-> "", Dimensions |-> <<>>, DefaultVal |-> Null]

\* CreateGrid that starts the map of grids afresh with the new grid
MemCreateGridAfresh(gs, id, dims, def) ==
  IF CheckDimensions(dims) # NoErr
  THEN [err |-> CheckDimensions(dims), grids |-> gs, g |-> NoGrid]
  ELSE [err |-> NoErr,
        grids |-> MapPut(EmptyMap, id,
                         [ID |-> id, Dimensions |-> dims, DefaultVal |-> def,
                          Cells |-> EmptyMap]),
        g |-> [ID |-> id, Dimensions |-> dims, DefaultVal |-> def]]

(***************************************************************************)
(* store.go: MemStore.  Each method runs with s.mu held, so it is one      *)
(* step: an operator from the grid map to its result and the new map.      *)
(* A grid is [ID, Dimensions, DefaultVal, Cells], Cells: coordKey -> value *)
(***************************************************************************)
MemCreateGrid(gs, id, dims, def) ==
  IF CheckDimensions(dims) # NoErr
  THEN [err |-> CheckDimensions(dims), grids |-> gs, g |-> NoGrid]
  ELSE [err |-> NoErr,
        grids |-> MapPut(gs, id, [ID |-> id, Dimensions |-> dims,
                                  DefaultVal |-> def, Cells |-> EmptyMap]),
        g |-> [ID |-> id, Dimensions |-> dims, DefaultVal |-> def]]

MemGetGrid(gs, id) ==
  IF id \notin DOMAIN gs THEN [err |-> ErrGridNotFound, g |-> NoGrid]
  ELSE [err |-> NoErr,
        g |-> [ID |-> gs[id].ID, Dimensions |-> gs[id].Dimensions,
               DefaultVal |-> gs[id].DefaultVal]]

\* SetCell as a plain map assignment, without the "already set" test of
\* store.go:121
MemSetCellOverwrite(gs, id, coord, value) ==
  IF id \notin DOMAIN gs
  THEN [err |-> ErrGridNotFound, grids |-> gs, found |-> FALSE]
  ELSE IF ValidateCoord(gs[id].Dimensions, coord) # NoErr
  THEN [err |-> ValidateCoord(gs[id].Dimensions, coord), grids |-> gs, found |-> FALSE]
  ELSE [err |-> NoErr,
        grids |-> [gs EXCEPT ![id].Cells = MapPut(@, CoordKey(coord), value)],
        found |-> CoordKey(coord) \in DOMAIN gs[id].Cells]

\* SetCell that takes the value a cell already holds as set again
MemSetCellSameValue(gs, id, coord, value) ==
  IF id \notin DOMAIN gs
  THEN [err |-> ErrGridNotFound, grids |-> gs, found |-> FALSE]
  ELSE IF ValidateCoord(gs[id].Dimensions, coord) # NoErr
  THEN [err |-> ValidateCoord(gs[id].Dimensions, coord), grids |-> gs, found |-> FALSE]
  ELSE LET key == CoordKey(coord)
       IN  IF key \in DOMAIN gs[id].Cells /\ gs[id].Cells[key] # value
           THEN [err |-> ErrCellAlreadySet, grids |-> gs, found |-> TRUE]
           ELSE [err |-> NoErr,
                 grids |-> [gs EXCEPT ![id].Cells = MapPut(@, key, value)],
                 found |-> FALSE]

MemSetCell(gs, id, coord, value) ==
  IF id \notin DOMAIN gs
  THEN [err |-> ErrGridNotFound, grids |-> gs, found |-> FALSE]
  ELSE IF ValidateCoord(gs[id].Dimensions, coord) # NoErr
  THEN [err |-> ValidateCoord(gs[id].Dimensions, coord), grids |-> gs, found |-> FALSE]
  ELSE LET key == CoordKey(coord)
       IN  IF key \in DOMAIN gs[id].Cells
           THEN [err |-> ErrCellAlreadySet, grids |-> gs, found |-> TRUE]
           ELSE [err |-> NoErr,
                 grids |-> [gs EXCEPT ![id].Cells = MapPut(@, key, value)],
                 found |-> FALSE]

\* ReleaseCell without the delete of store.go:58
MemReleaseCellKeep(gs, id, coord) ==
  IF id \notin DOMAIN gs
  THEN [err |-> ErrGridNotFound, grids |-> gs, found |-> FALSE]
  ELSE IF ValidateCoord(gs[id].Dimensions, coord) # NoErr
  THEN [err |-> ValidateCoord(gs[id].Dimensions, coord), grids |-> gs, found |-> FALSE]
  ELSE [err |-> NoErr, grids |-> gs, found |-> CoordKey(coord) \in DOMAIN gs[id].Cells]

\* ReleaseCell that drops a grid with its last cell, as Redis drops a hash
\* with its last field
MemReleaseCellDropsGrid(gs, id, coord) ==
  IF id \notin DOMAIN gs
  THEN [err |-> ErrGridNotFound, grids |-> gs, found |-> FALSE]
  ELSE IF ValidateCoord(gs[id].Dimensions, coord) # NoErr
  THEN [err |-> ValidateCoord(gs[id].Dimensions, coord), grids |-> gs, found |-> FALSE]
  ELSE LET key == CoordKey(coord)
       IN  [err |-> NoErr,
            grids |-> IF DOMAIN gs[id].Cells \subseteq {key}
                      THEN MapDelete(gs, id)
                      ELSE [gs EXCEPT ![id].Cells = MapDelete(@, key)],
            found |-> key \in DOMAIN gs[id].Cells]

MemReleaseCell(gs, id, coord) ==
  IF id \notin DOMAIN gs
  THEN [err |-> ErrGridNotFound, grids |-> gs, found |-> FALSE]
  ELSE IF ValidateCoord(gs[id].Dimensions, coord) # NoErr
  THEN [err |-> ValidateCoord(gs[id].Dimensions, coord), grids |-> gs, found |-> FALSE]
  ELSE LET key == CoordKey(coord)
       IN  [err |-> NoErr,
            grids |-> [gs EXCEPT ![id].Cells = MapDelete(@, key)],
            found |-> key \in DOMAIN gs[id].Cells]

\* one CellView per key, whether it parses or not
CellViewsKeepAll(entries, order) ==
  [i \in 1..Len(order) |->
     [Coord |-> ParseCoordKey(order[i]).coord, Value |-> entries[order[i]]]]

\* one CellView per key that parses, in the order the map range visits them
CellViews(entries, order) ==
  LET good == SelectSeq(order, LAMBDA k : ~ParseCoordKey(k).err)
  IN  [i \in 1..Len(good) |->
         [Coord |-> ParseCoordKey(good[i]).coord, Value |-> entries[good[i]]]]

\* the lists ListCells may return (the order of a map range is not fixed)
MemListCells(gs, id) ==
  IF id \notin DOMAIN gs THEN [err |-> ErrGridNotFound, lists |-> {<<>>}]
  ELSE [err |-> NoErr,
        lists |-> {CellViews(gs[id].Cells, o) : o \in Orders(DOMAIN gs[id].Cells)}]

(***************************************************************************)
(* redis-store.go: RedisStore.  The database maps a key to a hash (field   *)
(* -> string); a key with no field left does not exist.  Every command,    *)
(* and the Lua script as a whole, is atomic in the server; a method that   *)
(* issues two commands is two steps.                                       *)
(***************************************************************************)
metaKey(gridID) == <<"grid:", gridID, ":meta">>

\* one cells hash for all grids
cellsKeyShared(gridID) == <<"grid:", ":cells">>

cellsKey(gridID) == <<"grid:", gridID, ":cells">>

HGetAll(db, key) == IF key \in DOMAIN db THEN db[key] ELSE EmptyMap

HGet(db, key, field) == field \in DOMAIN HGetAll(db, key)

HSet(db, key, field, val) == MapPut(db, key, MapPut(HGetAll(db, key), field, val))

\* HDEL that removes nothing
HDelKeep(db, key, field) == db

\* DEL of the whole hash in place of HDEL of one field
HDelKey(db, key, field) == MapDelete(db, key)

HDel(db, key, field) ==
  LET h == MapDelete(HGetAll(db, key), field)
  IN  IF DOMAIN h = {} THEN MapDelete(db, key) ELSE MapPut(db, key, h)

\* "10;20;3"
EncodeDimensionsSemicolon(dims) == Join([i \in 1..Len(dims) |-> Itoa(dims[i])], ";")

\* "10,20,3"
EncodeDimensions(dims) == Join([i \in 1..Len(dims) |-> Itoa(dims[i])], ",")

\* fmt.Sscanf(p, "%d", &d): the longest prefix that is a sign and digits
ScanInt(p) ==
  LET start == IF p # <<>> /\ p[1] \in {"-", "+"} THEN 2 ELSE 1
      stop  == IF \E i \in start..Len(p) : ~IsDigit(p[i])
               THEN (CHOOSE i \in start..Len(p) :
                       ~IsDigit(p[i]) /\ \A j \in start..(i - 1) : IsDigit(p[j])) - 1
               ELSE Len(p)
  IN  IF stop < start THEN [err |-> TRUE, n |-> 0]
      ELSE [err |-> FALSE, n |-> Atoi(SubSeq(p, 1, stop)).n]

DecodeDimensions(dimStr) ==
  LET parts == SelectSeq(Split(dimStr, ","), LAMBDA p : p # <<>>)
  IN  IF \E i \in 1..Len(parts) : ScanInt(parts[i]).err
      THEN [err |-> TRUE, dims |-> <<>>]
      ELSE [err |-> FALSE, dims |-> [i \in 1..Len(parts) |-> ScanInt(parts[i]).n]]

\* "default": the JSON text of the default value, "" for nil
EncodeDefault(def) == IF def.t = "nil" THEN <<>> ELSE JsonMarshal(def)

\* a text that does not parse gives no default
DecodeDefault(defStr) ==
  IF defStr = <<>> \/ JsonUnmarshal(defStr).err THEN Null
  ELSE JsonUnmarshal(defStr).v

ErrInvalidMeta == "invalid grid meta: missing dimensions"
\* any error of the Redis client: connection refused, i/o timeout
ErrStore == "redis: command failed"
ErrScan == "expected integer"

RedisCreateGrid(db, id, dims, def) ==
  IF CheckDimensions(dims) # NoErr
  THEN [err |-> CheckDimensions(dims), db |-> db, g |-> NoGrid]
  ELSE [err |-> NoErr,
        db |-> HSet(HSet(db, metaKey(id), "dimensions", EncodeDimensions(dims)),
                    metaKey(id), "default", EncodeDefault(def)),
        g |-> [ID |-> id, Dimensions |-> dims, DefaultVal |-> def]]

\* GetGrid without the "len(vals) == 0" test of redis-store.go:93
RedisGetGridNoEmptyCheck(db, id) ==
  LET vals == HGetAll(db, metaKey(id))
  IN  IF "dimensions" \notin DOMAIN vals \/ vals["dimensions"] = <<>>
      THEN [err |-> ErrInvalidMeta, g |-> NoGrid]
      ELSE IF DecodeDimensions(vals["dimensions"]).err
      THEN [err |-> ErrScan, g |-> NoGrid]
      ELSE [err |-> NoErr,
            g |-> [ID |-> id,
                   Dimensions |-> DecodeDimensions(vals["dimensions"]).dims,
                   DefaultVal |-> IF "default" \in DOMAIN vals
                                  THEN DecodeDefault(vals["default"]) ELSE Null]]

RedisGetGrid(db, id) ==
  LET vals == HGetAll(db, metaKey(id))
  IN  IF DOMAIN vals = {} THEN [err |-> ErrGridNotFound, g |-> NoGrid]
      ELSE IF "dimensions" \notin DOMAIN vals \/ vals["dimensions"] = <<>>
      THEN [err |-> ErrInvalidMeta, g |-> NoGrid]
      ELSE IF DecodeDimensions(vals["dimensions"]).err
      THEN [err |-> ErrScan, g |-> NoGrid]
      ELSE [err |-> NoErr,
            g |-> [ID |-> id,
                   Dimensions |-> DecodeDimensions(vals["dimensions"]).dims,
                   DefaultVal |-> IF "default" \in DOMAIN vals
                                  THEN DecodeDefault(vals["default"]) ELSE Null]]

\* GetGrid alone, without the checks of the coordinate
RedisCheckGrid(db, id, coord) == RedisGetGrid(db, id).err

\* SetCell and ReleaseCell up to the store write: GetGrid, then the checks
RedisCheckCell(db, id, coord) ==
  LET m == RedisGetGrid(db, id)
  IN  IF m.err # NoErr THEN m.err ELSE ValidateCoord(m.g.Dimensions, coord)

\* the script as a bare HSET, without the HGET test
ClaimScriptNoCheck(db, cKey, field, val) ==
  [res |-> 1, db |-> HSet(db, cKey, field, val)]

\* the Lua script of SetCell: HSET only if HGET finds nothing
ClaimScript(db, cKey, field, val) ==
  IF HGet(db, cKey, field) THEN [res |-> 0, db |-> db]
  ELSE [res |-> 1, db |-> HSet(db, cKey, field, val)]

\* the stored text itself, never decoded
RedisCellRaw(text) == Str(text)

\* the value ListCells gives for a stored text: the raw string if not JSON
RedisCellValue(text) ==
  IF JsonUnmarshal(text).err THEN Str(text) ELSE JsonUnmarshal(text).v

\* ListCells after its GetGrid: HGETALL of the cells, decoded
RedisListCells(db, id) ==
  LET entries == HGetAll(db, cellsKey(id))
      decoded == [k \in DOMAIN entries |-> RedisCellValue(entries[k])]
  IN  {CellViews(decoded, o) : o \in Orders(DOMAIN entries)}

(***************************************************************************)
(* handlers.go: status codes and the published event                       *)
(***************************************************************************)
\* HandleCreateGrid: every error of CreateGrid is answered 400
CreateStatus(err) == IF err # NoErr THEN 400 ELSE 201

\* HandleGetGrid, for the error of GetGrid and then of ListCells
GetGridStatus(err) ==
  IF err = ErrGridNotFound THEN 404 ELSE IF err # NoErr THEN 500 ELSE 200

ListStatus(err) == IF err # NoErr THEN 500 ELSE 200

\* a handler without the branch for ErrCellAlreadySet
ClaimStatusNoConflict(err) ==
  IF err = ErrGridNotFound THEN 404
  ELSE IF err \in {ErrDimensionMismatch, ErrOutOfBounds} THEN 400
  ELSE IF err # NoErr THEN 500
  ELSE 200

ClaimStatus(err) ==
  IF err = ErrGridNotFound THEN 404
  ELSE IF err \in {ErrDimensionMismatch, ErrOutOfBounds} THEN 400
  ELSE IF err = ErrCellAlreadySet THEN 409
  ELSE IF err # NoErr THEN 500
  ELSE 200

\* the body HandleClaimCell writes with that status: the members success
\* and error of the JSON object, an empty text for a member left out
ClaimBody(r, called, err) ==
  IF ~called
  THEN [success |-> "",
        error |-> IF r.http = "method" THEN "method not allowed"
                  ELSE IF r.http = "json" THEN "invalid JSON"
                  ELSE "coord required"]
  ELSE IF err = ErrGridNotFound THEN [success |-> "", error |-> "grid not found"]
  ELSE IF err \in {ErrDimensionMismatch, ErrOutOfBounds}
  THEN [success |-> "", error |-> err]
  ELSE IF err = ErrCellAlreadySet
  THEN [success |-> "false", error |-> "cell already set"]
  ELSE IF err # NoErr THEN [success |-> "", error |-> "internal error"]
  ELSE [success |-> "true", error |-> ""]

\* the "error" member of the body a handler writes for a request it does
\* not answer with success; an empty text if there is none
ErrorText(r, called, err) ==
  IF ~called
  THEN IF r.http = "method" THEN "method not allowed"
       ELSE IF r.http = "json" THEN "invalid JSON"
       ELSE "coord required"
  ELSE IF err = NoErr THEN ""
  ELSE IF r.op = "create" THEN err
  ELSE IF r.op = "claim" THEN ClaimBody(r, called, err).error
  ELSE IF err = ErrGridNotFound THEN "grid not found"
  ELSE IF r.op = "release" /\ err \in {ErrDimensionMismatch, ErrOutOfBounds} THEN err
  ELSE "internal error"

ReleaseStatus(err) ==
  IF err = ErrGridNotFound THEN 404
  ELSE IF err \in {ErrDimensionMismatch, ErrOutOfBounds} THEN 400
  ELSE IF err # NoErr THEN 500
  ELSE 200

NoEvent == [channel |-> <<>>, type |-> "", gridId |-> "", coord |-> <<>>, value |-> <<>>]

\* json.Marshal of a CellUpdateEvent and the channel it goes to; coord and
\* value are omitempty: an empty text stands for a member left out
CellEvent(type, gridID, coord, value) ==
  [channel |-> <<"grid:", gridID, ":events">>,
   type    |-> type,
   gridId  |-> gridID,
   coord   |-> coord,
   value   |-> IF value.t = "nil" THEN <<>> ELSE JsonMarshal(value)]

\* publishCellEvent: nothing without a pub/sub client
PublishCellEvent(hasRedis, ev) == IF hasRedis THEN ev ELSE NoEvent

(***************************************************************************)
(* Requests.  A request is a call of a Store method (via = "store") or an  *)
(* HTTP request to the handler wrapping it (via = "http").                 *)
(***************************************************************************)
Req(op, via, http, id, coord, val, dims) ==
  [op |-> op, via |-> via, http |-> http, id |-> id, coord |-> coord,
   val |-> val, dims |-> dims]

NoReq == Req("none", "store", "ok", "", <<>>, Null, <<>>)

\* identifiers GenerateID may return, and one it never returns
GenIDs == {"g_1"}

GridIDs == GenIDs \cup {"g_x"}

\* coordinates of requests: up to two components in -1..MaxCoord
Coords ==
  {<<>>} \cup {<<a>> : a \in -1..MaxCoord}
         \cup {<<a, b>> : a \in -1..MaxCoord, b \in -1..MaxCoord}

\* dimensions of CreateGrid requests: none, a 1 x 2 grid, a zero entry, a
\* negative entry
DimChoices == {<<>>, <<1, 2>>, <<2, 0>>, <<-1>>}

\* default values of CreateGrid requests
Defaults == {Null, Str(<<"7">>), Num(7)}

CreateRequests ==
  {Req("create", "http", "ok", "", <<>>, v, d) : v \in Defaults, d \in DimChoices}

GetRequests == {Req("get", "http", "ok", id, <<>>, Null, <<>>) : id \in GridIDs}

ListRequests == {Req("list", "store", "ok", id, <<>>, Null, <<>>) : id \in GridIDs}

\* claims of any coordinate on a grid that may exist, and of one coordinate
\* of each length on the grid that does not
ClaimRequests ==
  {Req("claim", "http", "ok", id, c, v, <<>>) :
     id \in GenIDs, c \in Coords, v \in Values}
  \cup {Req("claim", "http", "ok", "g_x", c, Num(7), <<>>) :
          c \in {<<>>, <<0>>, <<0, 0>>}}

ReleaseRequests ==
  {Req("release", "http", "ok", id, c, Null, <<>>) : id \in GenIDs, c \in Coords}
  \cup {Req("release", "http", "ok", "g_x", c, Null, <<>>) :
          c \in {<<>>, <<0>>, <<0, 0>>}}

\* the handlers never pass an empty coordinate on: direct calls with one
DirectRequests ==
  {Req(op, "store", "ok", id, <<>>, Null, <<>>) :
     op \in {"claim", "release"}, id \in GridIDs}

\* requests the handler rejects before it looks at them: a wrong method,
\* a body that is not JSON
RejectedRequests ==
  {Req(op, "http", h, "g_1", <<>>, Null, <<>>) :
     op \in {"create", "get", "claim", "release"}, h \in {"method", "json"}}
  \ {Req("get", "http", "json", "g_1", <<>>, Null, <<>>)}

Requests ==
  CreateRequests \cup GetRequests \cup ListRequests \cup ClaimRequests
    \cup ReleaseRequests \cup DirectRequests \cup RejectedRequests

RequestsOf(op) == {r \in Requests : r.op = op}

CreateArrivals == RequestsOf("create")
GetArrivals == RequestsOf("get")
ListArrivals == RequestsOf("list")
ClaimArrivals == RequestsOf("claim")
ReleaseArrivals == RequestsOf("release")

(***************************************************************************)
(* State                                                                   *)
(***************************************************************************)
VARIABLES
  backend,  \* main.go: the Store the API is built on, "mem" or "redis"
  hasRedis, \* api.Redis # nil: a pub/sub client is configured
  grids,    \* MemStore.grids
  rdb,      \* the Redis database of RedisStore: key -> hash
  pc,       \* per handler: where its request stands
  req,      \* per handler: the request it serves
  loc,      \* per handler: locals kept across steps (g, found)
  last,     \* the response returned most recently
  todo,     \* per scripted client: the requests it will still send
  out,      \* per scripted client: the responses it received, in order
  held,     \* history: <<grid, coord>> -> the value of the claim in force,
            \* set when SetCell accepts, removed when ReleaseCell deletes
  faults,   \* how many more Redis commands may fail (error or timeout)
  ws,       \* per WebSocket client: its HandleGridWS call and connection
  mu,       \* MemStore.mu: the goroutine holding the write lock, the readers
  client,   \* the TypeScript client: its socket reference and its sockets
  codec     \* one use of the codec of model.go: a coordinate, the key
            \* CoordKey made of it, what ParseCoordKey made of the key

vars == <<backend, hasRedis, grids, rdb, pc, req, loc, last, todo, out, held,
          faults, ws, codec, mu, client>>

\* the lock free: no writer (0) and no reader
NoLock == [w |-> 0, r |-> {}]

\* the client before connect(): no socket reference (0), no socket created;
\* late records that an onclose handler has run while the reference was to
\* another socket
NoClient == [ws |-> 0, socks |-> <<>>, late |-> FALSE]

\* the codec at rest
NoCodec == [pc |-> "none", coord |-> <<>>, key |-> <<>>, err |-> FALSE, parsed |-> <<>>]

store == <<backend, hasRedis, grids, rdb>>

NoLoc == [g |-> NoGrid, found |-> FALSE]

\* a response: the request, whether the store was called and the error it
\* returned, the HTTP status (0 for a direct call), and the payloads
Resp(r, called, err, status, found, g, cells, ev) ==
  [seq |-> 0, req |-> r, called |-> called, err |-> err, status |-> status,
   found |-> found, g |-> g, cells |-> cells, ev |-> ev]

NoResp == Resp(NoReq, FALSE, NoErr, 0, FALSE, NoGrid, <<>>, NoEvent)

\* the requests for operation op that may arrive at handler p now: the next
\* one of its client's script, or any of S when the client follows none
Incoming(p, op, S) ==
  IF p \in DOMAIN todo
  THEN IF todo[p] # <<>> /\ Head(todo[p]).op = op THEN {Head(todo[p])} ELSE {}
  ELSE S

Advance(p) == IF p \in DOMAIN todo THEN [todo EXCEPT ![p] = Tail(@)] ELSE todo

\* the handler returns: the response goes out and the handler is free
Respond(p, resp) ==
  /\ last' = [resp EXCEPT !.seq = 1 - last.seq]
  /\ out' = IF p \in DOMAIN out THEN [out EXCEPT ![p] = Append(@, resp)] ELSE out
  /\ pc' = [pc EXCEPT ![p] = "idle"]
  /\ req' = [req EXCEPT ![p] = NoReq]
  /\ loc' = [loc EXCEPT ![p] = NoLoc]

\* the handler goes on to its next store or pub/sub call
Proceed(p, r, stage, l) ==
  /\ pc' = [pc EXCEPT ![p] = stage]
  /\ req' = [req EXCEPT ![p] = r]
  /\ loc' = [loc EXCEPT ![p] = l]
  /\ UNCHANGED <<last, out>>

\* the status with which a handler rejects a request before any store call,
\* 0 if it does not: method check, parseJSON, "coord required"
EarlyStatus(r) ==
  IF r.via # "http" THEN 0
  ELSE IF r.http = "method" THEN 405
  ELSE IF r.http = "json" THEN 400
  ELSE IF r.op \in {"claim", "release"} /\ Len(r.coord) = 0 THEN 400
  ELSE 0

Status(r, code) == IF r.via = "http" THEN code ELSE 0

\* the identifiers in use in any specification
KnownIDs == GridIDs \cup {"g_2"}

ExistingIDs ==
  IF backend = "mem" THEN DOMAIN grids
  ELSE {id \in KnownIDs : metaKey(id) \in DOMAIN rdb}

(***************************************************************************)
(* ws.go and the pub/sub side of Redis.  A stream is one call of           *)
(* HandleGridWS: pc is "idle" before the request, "refused" when it was    *)
(* answered without an upgrade, "hello" once Subscribe has sent SUBSCRIBE, *)
(* "loop" in the select loop, "done" when the handler has returned.        *)
(***************************************************************************)
NoStream ==
  [pc |-> "idle", id |-> "", status |-> 0,
   active |-> FALSE,  \* Redis has processed the SUBSCRIBE
   before |-> {},     \* history: the handlers that had published by then
   ch     |-> <<>>,   \* sub.Channel(): messages received, not yet written
   conn   |-> <<>>,   \* the messages written to the connection, in order
   peer   |-> FALSE,  \* the client holds its end of the connection
   broken |-> FALSE,  \* a write failed: every later write fails
   ctx    |-> FALSE,  \* ctx is cancelled
   reader |-> "none"] \* the goroutine of ws.go:52

\* the grids a client may ask a stream for: the one it has set out for, or
\* any
WSTargets(w) == IF w.id = "" THEN KnownIDs ELSE {w.id}

\* the topic a stream for a grid subscribes to, ws.go:45
EventsChannel(gridID) == <<"grid:", gridID, ":events">>

\* the payload of a published event: the JSON members of CellUpdateEvent
Payload(ev) == [type |-> ev.type, gridId |-> ev.gridId, coord |-> ev.coord,
                value |-> ev.value]

\* {"type":"hello","gridId":"<id>"}; by is the handler that published, 0 for
\* the stream handler itself
HelloMessage(gridID) ==
  [by |-> 0, payload |-> [type |-> "hello", gridId |-> gridID, coord |-> <<>>,
                          value |-> <<>>]]

\* a PUBLISH that reaches the active subscriptions of every channel
DeliverAll(w, p, ev) ==
  [s \in DOMAIN w |->
     IF w[s].active
     THEN [w[s] EXCEPT !.ch = Append(@, [by |-> p, payload |-> Payload(ev)])]
     ELSE w[s]]

\* a PUBLISH that also reaches the subscriptions Redis has not processed yet
DeliverBacklog(w, p, ev) ==
  [s \in DOMAIN w |->
     IF w[s].pc \in {"hello", "loop"} /\ EventsChannel(w[s].id) = ev.channel
     THEN [w[s] EXCEPT !.ch = Append(@, [by |-> p, payload |-> Payload(ev)])]
     ELSE w[s]]

\* PUBLISH: Redis hands the message to the subscriptions active on the
\* channel now, and keeps nothing
Deliver(w, p, ev) ==
  [s \in DOMAIN w |->
     IF w[s].active /\ EventsChannel(w[s].id) = ev.channel
     THEN [w[s] EXCEPT !.ch = Append(@, [by |-> p, payload |-> Payload(ev)])]
     ELSE w[s]]

\* whether a Redis command may fail now: the remaining budget of failures
Failing(can) == IF can /\ faults > 0 THEN {FALSE, TRUE} ELSE {FALSE}

\* the handlers that have published an event so far
Published == {p \in DOMAIN out : \E i \in 1..Len(out[p]) : out[p][i].ev # NoEvent}

\* a return that leaves the subscription open
ClosedKeepingSubscription(w) == [w EXCEPT !.pc = "done", !.ctx = TRUE]

\* the deferred calls of HandleGridWS: sub.Close(), cancel(), conn.Close()
Closed(w) == [w EXCEPT !.pc = "done", !.active = FALSE, !.ch = <<>>, !.ctx = TRUE]

\* the outcomes of conn.WriteMessage: it fails once a write has failed, it
\* may fail or be buffered when the client is gone
WriteOutcomes(w) ==
  IF w.broken THEN {FALSE} ELSE IF w.peer THEN {TRUE} ELSE {TRUE, FALSE}

(***************************************************************************)
(* Actions                                                                 *)
(***************************************************************************)
\* the outcomes of a Redis command that writes: it runs and answers, it is
\* refused (not run), or it runs and its reply is lost (the client times out)
WriteFaults ==
  IF backend = "redis" /\ faults > 0 THEN {"none", "refused", "lost"} ELSE {"none"}

Spend(failed) == faults' = IF failed THEN faults - 1 ELSE faults

\* GenerateID draws 8 random bytes; the identifier is taken to be one not
\* in use.  When the identifiers of the model are used up only a call that
\* never reaches GenerateID can still be made.
FreshIDs == IF GenIDs \ ExistingIDs # {} THEN GenIDs \ ExistingIDs ELSE {"g_none"}

\* Store.CreateGrid / HandleCreateGrid
CreateGrid(p) ==
  \E r \in Incoming(p, "create", CreateArrivals), id \in FreshIDs,
     f \in WriteFaults :
    /\ pc[p] = "idle"
    /\ id \notin GenIDs => EarlyStatus(r) # 0 \/ CheckDimensions(r.dims) # NoErr
    /\ f # "none" => EarlyStatus(r) = 0 /\ CheckDimensions(r.dims) = NoErr
    /\ todo' = Advance(p)
    /\ Spend(f # "none")
    /\ UNCHANGED <<backend, hasRedis, codec, mu, client, held, ws>>
    /\ IF EarlyStatus(r) # 0
       THEN /\ UNCHANGED <<grids, rdb>>
            /\ Respond(p, Resp(r, FALSE, NoErr, EarlyStatus(r), FALSE, NoGrid, <<>>, NoEvent))
       ELSE LET m == IF backend = "mem"
                     THEN MemCreateGrid(grids, id, r.dims, r.val)
                     ELSE RedisCreateGrid(rdb, id, r.dims, r.val)
                err == IF f = "none" THEN m.err ELSE ErrStore
            IN  /\ grids' = IF backend = "mem" THEN m.grids ELSE grids
                /\ rdb' = IF backend = "mem" \/ f = "refused" THEN rdb ELSE m.db
                /\ Respond(p, Resp(r, TRUE, err, Status(r, CreateStatus(err)),
                                   FALSE, IF err = NoErr THEN m.g ELSE NoGrid,
                                   <<>>, NoEvent))

\* Store.GetGrid / HandleGetGrid up to its call of ListCells
GetGrid(p) ==
  \E r \in Incoming(p, "get", GetArrivals), fails \in Failing(backend = "redis") :
    /\ pc[p] = "idle"
    /\ fails => EarlyStatus(r) = 0
    /\ todo' = Advance(p)
    /\ Spend(fails)
    /\ UNCHANGED <<store, codec, mu, client, held, ws>>
    /\ IF EarlyStatus(r) # 0
       THEN Respond(p, Resp(r, FALSE, NoErr, EarlyStatus(r), FALSE, NoGrid, <<>>, NoEvent))
       ELSE LET m == IF backend = "mem" THEN MemGetGrid(grids, r.id)
                     ELSE IF fails THEN [err |-> ErrStore, g |-> NoGrid]
                     ELSE RedisGetGrid(rdb, r.id)
            IN  IF m.err = NoErr /\ r.via = "http"
                THEN Proceed(p, r, "list", [g |-> m.g, found |-> FALSE])
                ELSE Respond(p, Resp(r, TRUE, m.err, Status(r, GetGridStatus(m.err)),
                                     FALSE, m.g, <<>>, NoEvent))

\* the request ListCells is called for: HandleGetGrid's, or a direct call
ListCellsFor(p) ==
  IF pc[p] = "list" THEN {req[p]} ELSE Incoming(p, "list", ListArrivals)

\* Store.ListCells: all of MemStore's, RedisStore's up to its HGETALL
ListCells(p) ==
  \E r \in ListCellsFor(p), fails \in Failing(backend = "redis") :
    /\ pc[p] \in {"idle", "list"}
    /\ todo' = IF pc[p] = "idle" THEN Advance(p) ELSE todo
    /\ Spend(fails)
    /\ UNCHANGED <<store, codec, mu, client, held, ws>>
    /\ IF backend = "mem"
       THEN LET m == MemListCells(grids, r.id)
            IN  \E cells \in m.lists :
                  Respond(p, Resp(r, TRUE, m.err, Status(r, ListStatus(m.err)),
                                  FALSE, loc[p].g, cells, NoEvent))
       ELSE LET e == IF fails THEN ErrStore ELSE RedisGetGrid(rdb, r.id).err
            IN  IF e # NoErr
                THEN Respond(p, Resp(r, TRUE, e, Status(r, ListStatus(e)),
                                     FALSE, loc[p].g, <<>>, NoEvent))
                ELSE Proceed(p, r, "hgetall", loc[p])

\* RedisStore.ListCells: HGETALL of the cells and the decoding
ListCellsHGetAll(p) ==
  \E fails \in Failing(TRUE) :
    /\ pc[p] = "hgetall"
    /\ Spend(fails)
    /\ UNCHANGED <<store, codec, mu, client, todo, held, ws>>
    /\ IF fails
       THEN Respond(p, Resp(req[p], TRUE, ErrStore, Status(req[p], ListStatus(ErrStore)),
                            FALSE, loc[p].g, <<>>, NoEvent))
       ELSE \E cells \in RedisListCells(rdb, req[p].id) :
              Respond(p, Resp(req[p], TRUE, NoErr, Status(req[p], 200), FALSE,
                              loc[p].g, cells, NoEvent))

\* Store.SetCell / HandleClaimCell: all of MemStore.SetCell, RedisStore.SetCell
\* up to the script
SetCell(p) ==
  \E r \in Incoming(p, "claim", ClaimArrivals), fails \in Failing(backend = "redis") :
    /\ pc[p] = "idle"
    /\ fails => EarlyStatus(r) = 0
    /\ todo' = Advance(p)
    /\ Spend(fails)
    /\ UNCHANGED <<backend, hasRedis, codec, mu, client, rdb, ws>>
    /\ IF EarlyStatus(r) # 0
       THEN /\ UNCHANGED <<grids, held>>
            /\ Respond(p, Resp(r, FALSE, NoErr, EarlyStatus(r), FALSE, NoGrid, <<>>, NoEvent))
       ELSE IF backend = "mem"
       THEN LET m == MemSetCell(grids, r.id, r.coord, r.val)
            IN  /\ grids' = m.grids
                /\ held' = IF m.err = NoErr
                           THEN MapPut(held, <<r.id, r.coord>>, r.val) ELSE held
                /\ IF m.err = NoErr /\ r.via = "http"
                   THEN Proceed(p, r, "publish", [g |-> NoGrid, found |-> m.found])
                   ELSE Respond(p, Resp(r, TRUE, m.err, Status(r, ClaimStatus(m.err)),
                                        m.found, NoGrid, <<>>, NoEvent))
       ELSE LET e == IF fails THEN ErrStore ELSE RedisCheckCell(rdb, r.id, r.coord)
            IN  /\ UNCHANGED <<grids, held>>
                /\ IF e # NoErr
                   THEN Respond(p, Resp(r, TRUE, e, Status(r, ClaimStatus(e)),
                                        FALSE, NoGrid, <<>>, NoEvent))
                   ELSE Proceed(p, r, "script", NoLoc)

\* a handler that goes on to publish whatever the script returned
SetCellScriptPublishAnyway(p) ==
  \E f \in WriteFaults :
    LET r == req[p]
        m == ClaimScript(rdb, cellsKey(r.id), CoordKey(r.coord), JsonMarshal(r.val))
        ran == f # "refused"
        err == IF f # "none" THEN ErrStore ELSE NoErr
    IN  /\ pc[p] = "script"
        /\ Spend(f # "none")
        /\ rdb' = IF ran THEN m.db ELSE rdb
        /\ held' = IF ran /\ m.res = 1
                   THEN MapPut(held, <<r.id, r.coord>>, r.val) ELSE held
        /\ UNCHANGED <<backend, hasRedis, codec, mu, client, grids, todo, ws>>
        /\ IF err = NoErr /\ r.via = "http"
           THEN Proceed(p, r, "publish", [g |-> NoGrid, found |-> FALSE])
           ELSE Respond(p, Resp(r, TRUE, err, Status(r, ClaimStatus(err)),
                                ran /\ m.res = 0, NoGrid, <<>>, NoEvent))

\* RedisStore.SetCell: the script runs; 0 is ErrCellAlreadySet
SetCellScript(p) ==
  \E f \in WriteFaults :
    LET r == req[p]
        m == ClaimScript(rdb, cellsKey(r.id), CoordKey(r.coord), JsonMarshal(r.val))
        ran == f # "refused"
        err == IF f # "none" THEN ErrStore
               ELSE IF m.res = 0 THEN ErrCellAlreadySet ELSE NoErr
    IN  /\ pc[p] = "script"
        /\ Spend(f # "none")
        /\ rdb' = IF ran THEN m.db ELSE rdb
        /\ held' = IF ran /\ m.res = 1
                   THEN MapPut(held, <<r.id, r.coord>>, r.val) ELSE held
        /\ UNCHANGED <<backend, hasRedis, codec, mu, client, grids, todo, ws>>
        /\ IF err = NoErr /\ r.via = "http"
           THEN Proceed(p, r, "publish", [g |-> NoGrid, found |-> FALSE])
           ELSE Respond(p, Resp(r, TRUE, err, Status(r, ClaimStatus(err)),
                                ran /\ m.res = 0, NoGrid, <<>>, NoEvent))

\* Store.ReleaseCell / HandleReleaseCell: all of MemStore.ReleaseCell,
\* RedisStore.ReleaseCell up to the HDEL
ReleaseCell(p) ==
  \E r \in Incoming(p, "release", ReleaseArrivals), fails \in Failing(backend = "redis") :
    /\ pc[p] = "idle"
    /\ fails => EarlyStatus(r) = 0
    /\ todo' = Advance(p)
    /\ Spend(fails)
    /\ UNCHANGED <<backend, hasRedis, codec, mu, client, rdb, ws>>
    /\ IF EarlyStatus(r) # 0
       THEN /\ UNCHANGED <<grids, held>>
            /\ Respond(p, Resp(r, FALSE, NoErr, EarlyStatus(r), FALSE, NoGrid, <<>>, NoEvent))
       ELSE IF backend = "mem"
       THEN LET m == MemReleaseCell(grids, r.id, r.coord)
            IN  /\ grids' = m.grids
                /\ held' = IF m.err = NoErr
                           THEN MapDelete(held, <<r.id, r.coord>>) ELSE held
                /\ IF m.err = NoErr /\ r.via = "http"
                   THEN Proceed(p, r, "publish", [g |-> NoGrid, found |-> m.found])
                   ELSE Respond(p, Resp(r, TRUE, m.err, Status(r, ReleaseStatus(m.err)),
                                        m.found, NoGrid, <<>>, NoEvent))
       ELSE LET e == IF fails THEN ErrStore ELSE RedisCheckCell(rdb, r.id, r.coord)
            IN  /\ UNCHANGED <<grids, held>>
                /\ IF e # NoErr
                   THEN Respond(p, Resp(r, TRUE, e, Status(r, ReleaseStatus(e)),
                                        FALSE, NoGrid, <<>>, NoEvent))
                   ELSE Proceed(p, r, "hdel", NoLoc)

\* RedisStore.ReleaseCell: HDEL of the field, whether or not it exists
ReleaseCellHDel(p) ==
  \E f \in WriteFaults :
    LET r == req[p]
        found == HGet(rdb, cellsKey(r.id), CoordKey(r.coord))
        ran == f # "refused"
    IN  /\ pc[p] = "hdel"
        /\ Spend(f # "none")
        /\ rdb' = IF ran THEN HDel(rdb, cellsKey(r.id), CoordKey(r.coord)) ELSE rdb
        /\ held' = IF ran THEN MapDelete(held, <<r.id, r.coord>>) ELSE held
        /\ UNCHANGED <<backend, hasRedis, codec, mu, client, grids, todo, ws>>
        /\ IF f # "none"
           THEN Respond(p, Resp(r, TRUE, ErrStore, Status(r, ReleaseStatus(ErrStore)),
                                ran /\ found, NoGrid, <<>>, NoEvent))
           ELSE IF r.via = "http"
           THEN Proceed(p, r, "publish", [g |-> NoGrid, found |-> found])
           ELSE Respond(p, Resp(r, TRUE, NoErr, 0, found, NoGrid, <<>>, NoEvent))

\* a handler that answers 500 when the publish fails
PublishSurfaced(p) ==
  LET r == req[p]
      ev == IF r.op = "claim"
            THEN CellEvent("cell_claimed", r.id, r.coord, r.val)
            ELSE CellEvent("cell_released", r.id, r.coord, Null)
  IN  /\ pc[p] = "publish"
      /\ UNCHANGED <<store, codec, mu, client, todo, held>>
      /\ \E fails \in Failing(hasRedis) :
           /\ faults' = IF fails THEN faults - 1 ELSE faults
           /\ ws' = IF hasRedis /\ ~fails THEN Deliver(ws, p, ev) ELSE ws
           /\ Respond(p, Resp(r, TRUE, IF fails THEN ErrStore ELSE NoErr,
                              IF fails THEN 500 ELSE 200, loc[p].found, NoGrid, <<>>,
                              IF fails THEN NoEvent
                              ELSE PublishCellEvent(hasRedis, ev)))

\* a handler that publishes cell_released only when a value was removed
PublishIfRemoved(p) ==
  LET r == req[p]
      ev == IF r.op = "claim"
            THEN CellEvent("cell_claimed", r.id, r.coord, r.val)
            ELSE CellEvent("cell_released", r.id, r.coord, Null)
      quiet == r.op = "release" /\ ~loc[p].found
  IN  /\ pc[p] = "publish"
      /\ UNCHANGED <<store, codec, mu, client, todo, held>>
      /\ \E fails \in Failing(hasRedis /\ ~quiet) :
           /\ faults' = IF fails THEN faults - 1 ELSE faults
           /\ ws' = IF hasRedis /\ ~fails /\ ~quiet THEN Deliver(ws, p, ev) ELSE ws
           /\ Respond(p, Resp(r, TRUE, NoErr, 200, loc[p].found, NoGrid, <<>>,
                              IF fails \/ quiet THEN NoEvent
                              ELSE PublishCellEvent(hasRedis, ev)))

\* HandleClaimCell / HandleReleaseCell after the store accepted: the event
\* is published and the success response written
Publish(p) ==
  LET r == req[p]
      ev == IF r.op = "claim"
            THEN CellEvent("cell_claimed", r.id, r.coord, r.val)
            ELSE CellEvent("cell_released", r.id, r.coord, Null)
  IN  /\ pc[p] = "publish"
      /\ UNCHANGED <<store, codec, mu, client, todo, held>>
      /\ \E fails \in Failing(hasRedis) :
           /\ faults' = IF fails THEN faults - 1 ELSE faults
           /\ ws' = IF hasRedis /\ ~fails THEN Deliver(ws, p, ev) ELSE ws
           /\ Respond(p, Resp(r, TRUE, NoErr, 200, loc[p].found, NoGrid, <<>>,
                              IF fails THEN NoEvent
                              ELSE PublishCellEvent(hasRedis, ev)))

\* a HandleGridWS that upgrades without looking the grid up
WSOpenNoLookup(s) ==
  \E id \in WSTargets(ws[s]), handshake \in BOOLEAN :
    LET status == IF ~hasRedis THEN 500
                  ELSE IF ~handshake THEN 400
                  ELSE 101
    IN  /\ ws[s].pc = "idle"
        /\ ws' = [ws EXCEPT ![s] =
                    IF status = 101
                    THEN [@ EXCEPT !.pc = "hello", !.id = id, !.status = status,
                                   !.peer = TRUE]
                    ELSE [@ EXCEPT !.pc = "refused", !.id = id, !.status = status]]
        /\ UNCHANGED <<store, codec, mu, client, pc, req, loc, last, todo, out, held, faults>>

\* HandleGridWS up to Subscribe: the checks, the upgrade, SUBSCRIBE is sent
WSOpen(s) ==
  \E id \in WSTargets(ws[s]), handshake \in BOOLEAN, fails \in Failing(backend = "redis") :
    LET e == IF backend = "mem" THEN MemGetGrid(grids, id).err
             ELSE IF fails THEN ErrStore
             ELSE RedisGetGrid(rdb, id).err
        status == IF ~hasRedis THEN 500
                  ELSE IF e = ErrGridNotFound THEN 404
                  ELSE IF e # NoErr THEN 500
                  ELSE IF ~handshake THEN 400
                  ELSE 101
    IN  /\ ws[s].pc = "idle"
        /\ hasRedis \/ ~fails
        /\ faults' = IF fails THEN faults - 1 ELSE faults
        /\ ws' = [ws EXCEPT ![s] =
                    IF status = 101
                    THEN [@ EXCEPT !.pc = "hello", !.id = id, !.status = status,
                                   !.peer = TRUE]
                    ELSE [@ EXCEPT !.pc = "refused", !.id = id, !.status = status]]
        /\ UNCHANGED <<store, codec, mu, client, pc, req, loc, last, todo, out, held>>

\* Redis processes the SUBSCRIBE that Subscribe sent without waiting for
\* the reply
BrokerSubscribe(s) ==
  /\ ws[s].pc \in {"hello", "loop"}
  /\ ~ws[s].active
  /\ ws' = [ws EXCEPT ![s].active = TRUE, ![s].before = Published]
  /\ UNCHANGED <<store, codec, mu, client, pc, req, loc, last, todo, out, held, faults>>

\* ws.go:50-59: the hello is written, its error dropped, and the reader
\* goroutine started
WSHello(s) ==
  \E ok \in WriteOutcomes(ws[s]) :
    /\ ws[s].pc = "hello"
    /\ ws' = [ws EXCEPT ![s].pc = "loop",
                        ![s].reader = "running",
                        ![s].conn = IF ok THEN Append(@, HelloMessage(ws[s].id)) ELSE @,
                        ![s].broken = ~ok]
    /\ UNCHANGED <<store, codec, mu, client, pc, req, loc, last, todo, out, held, faults>>

\* a forwarding loop that is already running when the hello is written
WSForwardEarly(s) ==
  \E ok \in WriteOutcomes(ws[s]) :
    /\ ws[s].pc \in {"hello", "loop"}
    /\ ws[s].ch # <<>>
    /\ ws' = [ws EXCEPT ![s] =
                IF ok THEN [@ EXCEPT !.conn = Append(@, Head(ws[s].ch)),
                                     !.ch = Tail(@)]
                ELSE Closed([@ EXCEPT !.broken = TRUE])]
    /\ UNCHANGED <<store, codec, mu, client, pc, req, loc, last, todo, out, held, faults>>

\* ws.go:64-71: a message of the channel is written to the connection; the
\* handler returns if the write fails
WSForward(s) ==
  \E ok \in WriteOutcomes(ws[s]) :
    /\ ws[s].pc = "loop"
    /\ ws[s].ch # <<>>
    /\ ws' = [ws EXCEPT ![s] =
                IF ok THEN [@ EXCEPT !.conn = Append(@, Head(ws[s].ch)),
                                     !.ch = Tail(@)]
                ELSE Closed([@ EXCEPT !.broken = TRUE])]
    /\ UNCHANGED <<store, codec, mu, client, pc, req, loc, last, todo, out, held, faults>>

\* ws.go:62-63: ctx is done and the handler returns
WSCtxDone(s) ==
  /\ ws[s].pc = "loop"
  /\ ws[s].ctx
  /\ ws' = [ws EXCEPT ![s] = Closed(@)]
  /\ UNCHANGED <<store, codec, mu, client, pc, req, loc, last, todo, out, held, faults>>

\* a reader goroutine that ends without cancelling ctx
ReaderNoCancel(s) ==
  /\ ws[s].reader = "running"
  /\ ~ws[s].peer \/ ws[s].pc = "done"
  /\ ws' = [ws EXCEPT ![s].reader = "done"]
  /\ UNCHANGED <<store, codec, mu, client, pc, req, loc, last, todo, out, held, faults>>

\* ws.go:52-59: ReadMessage fails, because the client is gone or the
\* connection was closed, and the goroutine cancels ctx and ends
Reader(s) ==
  /\ ws[s].reader = "running"
  /\ ~ws[s].peer \/ ws[s].pc = "done"
  /\ ws' = [ws EXCEPT ![s].reader = "done", ![s].ctx = TRUE]
  /\ UNCHANGED <<store, codec, mu, client, pc, req, loc, last, todo, out, held, faults>>

\* the client disconnects
PeerCloses(s) ==
  /\ ws[s].pc \in {"hello", "loop"}
  /\ ws[s].peer
  /\ ws' = [ws EXCEPT ![s].peer = FALSE]
  /\ UNCHANGED <<store, codec, mu, client, pc, req, loc, last, todo, out, held, faults>>

\* r.Context() is cancelled
CtxCancelled(s) ==
  /\ ws[s].pc \in {"hello", "loop"}
  /\ ~ws[s].ctx
  /\ ws' = [ws EXCEPT ![s].ctx = TRUE]
  /\ UNCHANGED <<store, codec, mu, client, pc, req, loc, last, todo, out, held, faults>>

(***************************************************************************)
(* Spec: a handler serving any request, on either store                    *)
(***************************************************************************)
Handlers == {1}

InitStore ==
  /\ backend \in {"mem", "redis"}
  /\ hasRedis \in BOOLEAN
  /\ grids = EmptyMap
  /\ rdb = EmptyMap

InitProcs(P) ==
  /\ pc = [p \in P |-> "idle"]
  /\ req = [p \in P |-> NoReq]
  /\ loc = [p \in P |-> NoLoc]
  /\ last = NoResp

Init ==
  /\ InitStore
  /\ InitProcs(Handlers)
  /\ todo = EmptyMap
  /\ out = EmptyMap
  /\ held = EmptyMap
  /\ faults = 0
  /\ ws = EmptyMap
  /\ codec = NoCodec
  /\ mu = NoLock
  /\ client = NoClient

Next ==
  \E p \in Handlers :
    \/ CreateGrid(p)
    \/ GetGrid(p)
    \/ ListCells(p)
    \/ ListCellsHGetAll(p)
    \/ SetCell(p)
    \/ SetCellScript(p)
    \/ ReleaseCell(p)
    \/ ReleaseCellHDel(p)
    \/ Publish(p)

Spec == Init /\ [][Next]_vars

(***************************************************************************)
(* SpecRace: NumRacers requests, each a claim or a release of one cell of  *)
(* a 1 x 2 grid, served concurrently                                       *)
(***************************************************************************)
Racers == 1..NumRacers

RaceGrid == "g_1"

RaceDims == <<1, 2>>

RaceCells == {<<0, 0>>, <<0, 1>>}

RaceRequests(c) ==
  {Req("claim", "http", "ok", RaceGrid, c, v, <<>>) : v \in Values}
  \cup {Req("release", "http", "ok", RaceGrid, c, Null, <<>>)}

\* the store once CreateGrid(RaceDims, nil) has returned RaceGrid
RaceInit ==
  /\ backend \in {"mem", "redis"}
  /\ hasRedis \in BOOLEAN
  /\ grids = IF backend = "mem"
             THEN MemCreateGrid(EmptyMap, RaceGrid, RaceDims, Null).grids
             ELSE EmptyMap
  /\ rdb = IF backend = "redis"
           THEN RedisCreateGrid(EmptyMap, RaceGrid, RaceDims, Null).db
           ELSE EmptyMap
  /\ InitProcs(Racers)
  /\ \E c \in RaceCells : todo \in [Racers -> {<<r>> : r \in RaceRequests(c)}]
  /\ out = [p \in Racers |-> <<>>]
  /\ held = EmptyMap
  /\ faults = 0
  /\ ws = EmptyMap
  /\ codec = NoCodec
  /\ mu = NoLock
  /\ client = NoClient

RaceNext ==
  \E p \in Racers :
    \/ SetCell(p)
    \/ SetCellScript(p)
    \/ ReleaseCell(p)
    \/ ReleaseCellHDel(p)
    \/ Publish(p)

SpecRace == RaceInit /\ [][RaceNext]_vars

(***************************************************************************)
(* SpecScenario: one client sending a fixed sequence of requests to a      *)
(* fresh server, each after the response to the one before                 *)
(***************************************************************************)
Client == {1}

ScenarioDims == {<<1, 2>>, <<2, 2>>}

InBounds(dims) == {c \in Coords : ValidateCoord(dims, c) = NoErr}

Create(d) == Req("create", "http", "ok", "", <<>>, Null, d)
Claim(c, v) == Req("claim", "http", "ok", "g_1", c, v, <<>>)
Release(c) == Req("release", "http", "ok", "g_1", c, Null, <<>>)
GetState == Req("get", "http", "ok", "g_1", <<>>, Null, <<>>)

\* create -> claim -> conflict -> release -> reclaim -> state
ReclaimScripts ==
  {<<Create(d), Claim(c, a), Claim(c, b), Release(c), Claim(c, b), GetState>> :
     d \in ScenarioDims, c \in Coords, a \in Values, b \in Values}

\* create -> (claim) -> release -> release -> state
ReleaseScripts ==
  {<<Create(d), Claim(c, a), Release(c), GetState, Release(c), GetState>> :
     d \in ScenarioDims, c \in Coords, a \in Values}
  \cup {<<Create(d), Release(c), GetState, Release(c), GetState>> :
          d \in ScenarioDims, c \in Coords}

Scenarios ==
  {s \in ReclaimScripts \cup ReleaseScripts :
     \A i \in 2..Len(s) : s[i].op \in {"claim", "release"}
                            => s[i].coord \in InBounds(s[1].dims)}

ScenarioInit ==
  /\ InitStore
  /\ InitProcs(Client)
  /\ todo \in [Client -> Scenarios]
  /\ out = [p \in Client |-> <<>>]
  /\ held = EmptyMap
  /\ faults = 0
  /\ ws = EmptyMap
  /\ codec = NoCodec
  /\ mu = NoLock
  /\ client = NoClient

ScenarioNext ==
  \E p \in Client :
    \/ CreateGrid(p)
    \/ GetGrid(p)
    \/ ListCells(p)
    \/ ListCellsHGetAll(p)
    \/ SetCell(p)
    \/ SetCellScript(p)
    \/ ReleaseCell(p)
    \/ ReleaseCellHDel(p)
    \/ Publish(p)

SpecScenario == ScenarioInit /\ [][ScenarioNext]_vars

(***************************************************************************)
(* SpecStream: two grids with a claimed cell each, a caller with one claim *)
(* or release, two WebSocket clients; Redis commands may fail              *)
(***************************************************************************)
Callers == {1}

Subs == {1, 2}

StreamDims == <<1, 2>>

TakenCell == <<0, 1>>

ClaimOn(id, c, v) == Req("claim", "http", "ok", id, c, v, <<>>)
ReleaseOn(id, c) == Req("release", "http", "ok", id, c, Null, <<>>)

\* what each caller may send
StreamRequests(p) ==
  {ClaimOn("g_1", <<0, 0>>, v) : v \in Values}
  \cup {ClaimOn("g_1", TakenCell, Str(<<"7">>)), ClaimOn("g_1", <<0, 2>>, Num(7)),
        ClaimOn("g_2", <<0, 0>>, Str(<<"7">>)), ClaimOn("g_x", <<0, 0>>, Num(7)),
        ReleaseOn("g_1", TakenCell), ReleaseOn("g_2", <<0, 0>>),
        ReleaseOn("g_1", <<0, 2>>)}

\* the grid each client asks a stream for
StreamTargets(s) == IF s = 1 THEN {"g_1"} ELSE {"g_1", "g_2", "g_x"}

\* MemStore after CreateGrid twice and SetCell(TakenCell, 7) on both grids
StreamGridsMem ==
  LET a == MemCreateGrid(EmptyMap, "g_1", StreamDims, Null).grids
      b == MemCreateGrid(a, "g_2", StreamDims, Str(<<"7">>)).grids
      c == MemSetCell(b, "g_1", TakenCell, Num(7)).grids
  IN  MemSetCell(c, "g_2", TakenCell, Num(7)).grids

\* the Redis database after the same calls
StreamGridsRedis ==
  LET a == RedisCreateGrid(EmptyMap, "g_1", StreamDims, Null).db
      b == RedisCreateGrid(a, "g_2", StreamDims, Str(<<"7">>)).db
      c == ClaimScript(b, cellsKey("g_1"), CoordKey(TakenCell), JsonMarshal(Num(7))).db
  IN  ClaimScript(c, cellsKey("g_2"), CoordKey(TakenCell), JsonMarshal(Num(7))).db

StreamStore ==
  /\ backend \in {"mem", "redis"}
  /\ hasRedis \in BOOLEAN
  /\ grids = IF backend = "mem" THEN StreamGridsMem ELSE EmptyMap
  /\ rdb = IF backend = "redis" THEN StreamGridsRedis ELSE EmptyMap
  /\ held = [k \in {<<"g_1", TakenCell>>, <<"g_2", TakenCell>>} |-> Num(7)]

StreamInit ==
  /\ StreamStore
  /\ InitProcs(Callers)
  /\ todo \in [Callers -> UNION {{<<r>> : r \in StreamRequests(p)} : p \in Callers}]
  /\ \A p \in Callers : Head(todo[p]) \in StreamRequests(p)
  /\ out = [p \in Callers |-> <<>>]
  /\ faults \in {0, MaxFaults}
  /\ ws \in [Subs -> {[NoStream EXCEPT !.id = id] : id \in KnownIDs}]
  /\ \A s \in Subs : ws[s].id \in StreamTargets(s)
  /\ codec = NoCodec
  /\ mu = NoLock
  /\ client = NoClient

StreamNext ==
  \/ \E p \in Callers :
       \/ SetCell(p)
       \/ SetCellScript(p)
       \/ ReleaseCell(p)
       \/ ReleaseCellHDel(p)
       \/ Publish(p)
  \/ \E s \in Subs :
       \/ WSOpen(s)
       \/ BrokerSubscribe(s)
       \/ WSHello(s)
       \/ WSForward(s)
       \/ WSCtxDone(s)
       \/ Reader(s)
       \/ PeerCloses(s)
       \/ CtxCancelled(s)

SpecStream == StreamInit /\ [][StreamNext]_vars

(***************************************************************************)
(* SpecLive: SpecStream without failures and with a pub/sub client, and    *)
(* with every step of a handler and of Redis taken if it stays possible.   *)
(* When a request arrives, a client disconnects or a context is cancelled  *)
(* is up to the environment.                                               *)
(***************************************************************************)
LiveRequests ==
  {ClaimOn("g_1", <<0, 0>>, v) : v \in Values} \cup {ReleaseOn("g_1", TakenCell)}

LiveInit ==
  /\ StreamStore
  /\ hasRedis
  /\ InitProcs(Callers)
  /\ todo \in [Callers -> {<<r>> : r \in LiveRequests}]
  /\ out = [p \in Callers |-> <<>>]
  /\ faults = 0
  /\ ws \in [Subs -> {[NoStream EXCEPT !.id = id] : id \in {"g_1", "g_2"}}]
  /\ ws[1].id = "g_1"
  /\ codec = NoCodec
  /\ mu = NoLock
  /\ client = NoClient

LiveFairness ==
  /\ \A p \in Callers :
       /\ WF_vars(SetCellScript(p))
       /\ WF_vars(ReleaseCellHDel(p))
       /\ WF_vars(Publish(p))
  /\ \A s \in Subs :
       /\ WF_vars(BrokerSubscribe(s))
       /\ WF_vars(WSHello(s))
       /\ WF_vars(WSForward(s))
       /\ WF_vars(WSCtxDone(s))
       /\ WF_vars(Reader(s))

SpecLive == LiveInit /\ [][StreamNext]_vars /\ LiveFairness

(***************************************************************************)
(* SpecFault: a fresh server on RedisStore with a pub/sub client; one      *)
(* client creates a grid and sends one more request, another opens a       *)
(* stream; up to MaxFaults Redis commands fail                             *)
(***************************************************************************)
FaultSubs == {1}

FaultScripts ==
  {<<Create(<<1, 2>>), x>> :
     x \in {GetState, Release(<<0, 0>>)} \cup {Claim(<<0, 0>>, v) : v \in Values}}

FaultInit ==
  /\ backend = "redis"
  /\ hasRedis = TRUE
  /\ grids = EmptyMap
  /\ rdb = EmptyMap
  /\ InitProcs(Client)
  /\ todo \in [Client -> FaultScripts]
  /\ out = [p \in Client |-> <<>>]
  /\ held = EmptyMap
  /\ faults = MaxFaults
  /\ ws = [s \in FaultSubs |-> [NoStream EXCEPT !.id = "g_1"]]
  /\ codec = NoCodec
  /\ mu = NoLock
  /\ client = NoClient

FaultNext ==
  \/ \E p \in Client :
       \/ CreateGrid(p)
       \/ GetGrid(p)
       \/ ListCells(p)
       \/ ListCellsHGetAll(p)
       \/ SetCell(p)
       \/ SetCellScript(p)
       \/ ReleaseCell(p)
       \/ ReleaseCellHDel(p)
       \/ Publish(p)
  \/ \E s \in FaultSubs :
       \/ WSOpen(s)
       \/ BrokerSubscribe(s)
       \/ WSHello(s)
       \/ WSForward(s)
       \/ WSCtxDone(s)
       \/ Reader(s)
       \/ PeerCloses(s)
       \/ CtxCancelled(s)

SpecFault == FaultInit /\ [][FaultNext]_vars

(***************************************************************************)
(* What the store holds, whichever store it is                             *)
(***************************************************************************)
\* the cells stored for a grid, key -> stored form (the value in MemStore,
\* its JSON text in RedisStore)
StoredCells(id) ==
  IF backend = "mem"
  THEN IF id \in DOMAIN grids THEN grids[id].Cells ELSE EmptyMap
  ELSE HGetAll(rdb, cellsKey(id))

\* the lists a call of ListCells on an existing grid may return now
ListResults(id) ==
  IF backend = "mem" THEN MemListCells(grids, id).lists ELSE RedisListCells(rdb, id)

\* the dimensions GetGrid reports for an existing grid
DimsOf(id) ==
  IF backend = "mem" THEN MemGetGrid(grids, id).g.Dimensions
  ELSE RedisGetGrid(rdb, id).g.Dimensions

(***************************************************************************)
(* The race (SpecRace)                                                     *)
(***************************************************************************)
\* the one request of racer p
RaceReq(p) ==
  IF todo[p] # <<>> THEN Head(todo[p])
  ELSE IF pc[p] # "idle" THEN req[p]
  ELSE out[p][1].req

\* p's store call (SetCell or ReleaseCell) has returned, and with what
Returned(p) == pc[p] = "publish" \/ out[p] # <<>>

StoreErr(p) == IF pc[p] = "publish" THEN NoErr ELSE out[p][1].err

Claimers == {p \in Racers : RaceReq(p).op = "claim"}

Releasers == {p \in Racers : RaceReq(p).op = "release"}

RaceKey == CoordKey(RaceReq(1).coord)

\* C1 (mutual exclusion): while no Release of the cell has been carried out,
\* of the racing Claims that have returned exactly one returned success and
\* every other returned CellAlreadySet (HTTP 200 and 409), and every list
\* ListCells can return has exactly one entry, the cell with the value the
\* winner submitted.
MutualExclusion ==
  LET done == {p \in Claimers : Returned(p)}
      won  == {p \in done : StoreErr(p) = NoErr}
  IN  (done # {} /\ \A p \in Releasers : ~Returned(p)) =>
        /\ Cardinality(won) = 1
        /\ \A p \in done \ won : StoreErr(p) = ErrCellAlreadySet
        /\ \A p \in done : out[p] # <<>> =>
             out[p][1].status = IF p \in won THEN 200 ELSE 409
        /\ \A w \in won : \A cells \in ListResults(RaceGrid) :
             cells = <<[Coord |-> RaceReq(w).coord, Value |-> RaceReq(w).val]>>

\* all racers claimed, with different values among them, and all were answered
RaceDecided ==
  /\ Claimers = Racers
  /\ \A p \in Racers : out[p] # <<>>
  /\ \E p, q \in Racers : RaceReq(p).val # RaceReq(q).val
  /\ Cardinality({p \in Racers : out[p][1].status = 409}) = NumRacers - 1
  /\ Cardinality({p \in Racers : out[p][1].status = 200}) = 1

\* C2 (no overwrite): a stored cell keeps its stored value in every step in
\* which it stays stored, it leaves the store only in a step in which a
\* ReleaseCell of it returns, and a SetCell of it that returns while it is
\* stored returns CellAlreadySet; the claim in force is the one whose value
\* is stored.
NoOverwriteStep ==
  \A k \in DOMAIN StoredCells(RaceGrid) :
    /\ k \in DOMAIN StoredCells(RaceGrid)' =>
         /\ StoredCells(RaceGrid)'[k] = StoredCells(RaceGrid)[k]
         /\ held' = held
    /\ k \notin DOMAIN StoredCells(RaceGrid)' =>
         \E p \in Releasers : ~Returned(p) /\ Returned(p)'
    /\ \A p \in Claimers :
         (~Returned(p) /\ Returned(p)' /\ CoordKey(RaceReq(p).coord) = k) =>
           StoreErr(p)' = ErrCellAlreadySet

NoOverwrite == [][NoOverwriteStep]_vars

\* a Claim with another value was refused and the first value is still held
OverwriteRefused ==
  \E p, q \in Claimers :
    /\ Returned(p) /\ StoreErr(p) = NoErr
    /\ out[q] # <<>> /\ out[q][1].err = ErrCellAlreadySet
    /\ RaceReq(p).val # RaceReq(q).val
    /\ <<RaceGrid, RaceReq(p).coord>> \in DOMAIN held
    /\ held[<<RaceGrid, RaceReq(p).coord>>] = RaceReq(p).val
    /\ \A cells \in ListResults(RaceGrid) :
         \E i \in 1..Len(cells) : cells[i].Value = RaceReq(p).val

(***************************************************************************)
(* The scenarios (SpecScenario)                                            *)
(***************************************************************************)
\* the script the client follows: answered, in flight, still to send
ScenarioScript ==
  [i \in 1..Len(out[1]) |-> out[1][i].req]
    \o (IF pc[1] # "idle" THEN <<req[1]>> ELSE <<>>)
    \o todo[1]

Answered(k, err, status) ==
  Len(out[1]) >= k => out[1][k].err = err /\ out[1][k].status = status

\* C3 (reclaim after release): on a fresh grid and for an in-bounds cell c,
\* Claim(c,a) succeeds, Claim(c,b) is refused with CellAlreadySet,
\* Release(c) succeeds and Claim(c,b) succeeds, and from then on ListCells
\* gives the single entry (c, b), so none with value a when a differs from b.
ReclaimAfterRelease ==
  ScenarioScript \in ReclaimScripts =>
    LET c == ScenarioScript[2].coord
        a == ScenarioScript[2].val
        b == ScenarioScript[3].val
        only == <<[Coord |-> c, Value |-> b]>>
    IN  /\ Answered(1, NoErr, 201)
        /\ Answered(2, NoErr, 200)
        /\ Answered(3, ErrCellAlreadySet, 409)
        /\ Answered(4, NoErr, 200)
        /\ Answered(5, NoErr, 200)
        /\ Answered(6, NoErr, 200)
        /\ Len(out[1]) >= 5 => \A cells \in ListResults("g_1") : cells = only
        /\ Len(out[1]) >= 6 =>
             /\ out[1][6].cells = only
             /\ a # b => \A i \in 1..Len(out[1][6].cells) : out[1][6].cells[i].Value # a

\* the whole sequence ran with two different values
Reclaimed ==
  /\ ScenarioScript \in ReclaimScripts
  /\ ScenarioScript[2].val # ScenarioScript[3].val
  /\ Len(out[1]) = 6
  /\ out[1][3].status = 409
  /\ out[1][5].status = 200
  /\ out[1][6].cells = <<[Coord |-> ScenarioScript[2].coord,
                          Value |-> ScenarioScript[3].val]>>

(***************************************************************************)
(* Steps of a handler (Spec)                                               *)
(***************************************************************************)
\* the handlers whose SetCell or ReleaseCell returns nil in this step, to
\* go on to publish
Acceptor == {p \in DOMAIN pc : pc[p] # "publish" /\ pc'[p] = "publish"}

\* a call of a Store method returns in this step: to a handler that goes on
\* to publish, or to a caller that is answered at once
StoreReturns ==
  \/ Acceptor # {}
  \/ /\ last'.seq # last.seq
     /\ last'.called
     /\ \A p \in DOMAIN pc : pc[p] = "publish" => pc'[p] = "publish"

\* the request of that call and the error it returns
RetReq == IF Acceptor # {} THEN req'[CHOOSE p \in Acceptor : TRUE] ELSE last'.req

RetErr == IF Acceptor # {} THEN NoErr ELSE last'.err

\* coord is a coordinate of a grid with dimensions dims
Within(dims, coord) ==
  /\ Len(coord) = Len(dims)
  /\ \A i \in 1..Len(coord) : 0 <= coord[i] /\ coord[i] < dims[i]

\* C4 (idempotent release): a ReleaseCell of an in-bounds cell of an
\* existing grid that is not stored returns success and leaves the store as
\* it was; and a ReleaseCell of the cell whose release was the last call
\* answered returns success and leaves the store as it was after that one.
IdempotentReleaseStep ==
  (StoreReturns /\ RetReq.op = "release" /\ RetReq.id \in ExistingIDs
     /\ Within(DimsOf(RetReq.id), RetReq.coord)) =>
    /\ RetErr = NoErr
    /\ (\/ CoordKey(RetReq.coord) \notin DOMAIN StoredCells(RetReq.id)
        \/ /\ last.req.op = "release" /\ last.called /\ last.err = NoErr
           /\ last.req.id = RetReq.id /\ last.req.coord = RetReq.coord) =>
         /\ grids' = grids
         /\ rdb' = rdb
         /\ held' = held

IdempotentRelease == [][IdempotentReleaseStep]_vars

\* a release of a cell that was not stored was answered 200 while another
\* cell of the grid is stored
ReleasedUnclaimed ==
  /\ last.req.op = "release" /\ last.called /\ ~last.found
  /\ last.err = NoErr /\ last.status = 200
  /\ StoredCells(last.req.id) # EmptyMap

(***************************************************************************)
(* C5 (SpecRace)                                                           *)
(***************************************************************************)
\* C5 (release is unconditional): when a ReleaseCell of the cell returns, it
\* returns success and the cell is not stored and not listed, whatever was
\* stored and whoever claimed it; and a cell that is not stored becomes
\* stored only in a step in which a SetCell of it returns success.
ReleaseUnconditionalStep ==
  /\ \A p \in Releasers :
       (~Returned(p) /\ Returned(p)') =>
         /\ StoreErr(p)' = NoErr
         /\ RaceKey \notin DOMAIN StoredCells(RaceGrid)'
         /\ ListResults(RaceGrid)' = {<<>>}
         /\ held' = EmptyMap
  /\ (RaceKey \notin DOMAIN StoredCells(RaceGrid)
        /\ RaceKey \in DOMAIN StoredCells(RaceGrid)') =>
       \E q \in Claimers : ~Returned(q) /\ Returned(q)' /\ StoreErr(q)' = NoErr

ReleaseUnconditional == [][ReleaseUnconditionalStep]_vars

\* a racer released the cell another racer had claimed, and it is gone
ReleasedOthersClaim ==
  /\ \A p \in Racers : out[p] # <<>>
  /\ \E p \in Releasers, q \in Claimers :
       /\ out[p][1].found /\ out[p][1].status = 200
       /\ out[q][1].status = 200
  /\ StoredCells(RaceGrid) = EmptyMap

(***************************************************************************)
(* Validation and listing (Spec)                                           *)
(***************************************************************************)
StoreUnchanged == grids' = grids /\ rdb' = rdb /\ held' = held

\* C6 (bounds enforcement on Claim): a SetCell on an existing grid with a
\* coordinate of the wrong length returns DimensionMismatch, and with one of
\* the right length that has a component below 0 or not below the dimension
\* returns OutOfBounds (HTTP 400 for both), and the store is unchanged.
ClaimBoundsStep ==
  (StoreReturns /\ RetReq.op = "claim" /\ RetReq.id \in ExistingIDs) =>
    LET d == DimsOf(RetReq.id)
        c == RetReq.coord
    IN  /\ Len(c) # Len(d) =>
              /\ RetErr = ErrDimensionMismatch
              /\ StoreUnchanged
              /\ RetReq.via = "http" => last'.status = 400
        /\ (Len(c) = Len(d) /\ \E i \in 1..Len(c) : c[i] < 0 \/ c[i] >= d[i]) =>
              /\ RetErr = ErrOutOfBounds
              /\ StoreUnchanged
              /\ RetReq.via = "http" => last'.status = 400

ClaimBounds == [][ClaimBoundsStep]_vars

\* a claim one past the last cell of a grid that holds cells was refused
ClaimPastEdge ==
  /\ last.req.op = "claim" /\ last.called /\ last.req.id \in ExistingIDs
  /\ Len(last.req.coord) = Len(DimsOf(last.req.id))
  /\ \E i \in 1..Len(last.req.coord) : last.req.coord[i] = DimsOf(last.req.id)[i]
  /\ last.err = ErrOutOfBounds /\ last.status = 400
  /\ StoredCells(last.req.id) # EmptyMap

\* C7 (validation on Release): a ReleaseCell returns GridNotFound on an
\* unknown grid (HTTP 404), DimensionMismatch for a coordinate of the wrong
\* length and OutOfBounds for a component out of range (HTTP 400); the
\* store is unchanged, and the handler answers without publishing.
ReleaseValidationStep ==
  (StoreReturns /\ RetReq.op = "release") =>
    LET c == RetReq.coord
        refused(err, status) ==
          /\ RetErr = err
          /\ StoreUnchanged
          /\ Acceptor = {}
          /\ last'.ev = NoEvent
          /\ RetReq.via = "http" => last'.status = status
    IN  /\ RetReq.id \notin ExistingIDs => refused(ErrGridNotFound, 404)
        /\ (RetReq.id \in ExistingIDs /\ Len(c) # Len(DimsOf(RetReq.id))) =>
             refused(ErrDimensionMismatch, 400)
        /\ (RetReq.id \in ExistingIDs /\ Len(c) = Len(DimsOf(RetReq.id))
              /\ \E i \in 1..Len(c) : c[i] < 0 \/ c[i] >= DimsOf(RetReq.id)[i]) =>
             refused(ErrOutOfBounds, 400)

ReleaseValidation == [][ReleaseValidationStep]_vars

\* a release below 0 on a grid that holds cells was answered 400
ReleaseRefused ==
  /\ last.req.op = "release" /\ last.called /\ last.req.id \in ExistingIDs
  /\ \E i \in 1..Len(last.req.coord) : last.req.coord[i] < 0
  /\ last.err = ErrOutOfBounds /\ last.status = 400 /\ last.ev = NoEvent
  /\ StoredCells(last.req.id) # EmptyMap

\* C8 (unknown grid): GetGrid, SetCell, ReleaseCell and ListCells on an
\* identifier that no grid has return GridNotFound (HTTP 404) and leave the
\* store unchanged; an identifier without a grid has no metadata and no
\* cell.
NothingStoredFor(id) ==
  /\ StoredCells(id) = EmptyMap
  /\ id \notin DOMAIN grids
  /\ metaKey(id) \notin DOMAIN rdb
  /\ cellsKey(id) \notin DOMAIN rdb

UnknownGridStep ==
  /\ (StoreReturns /\ RetReq.op \in {"get", "claim", "release", "list"}
        /\ RetReq.id \notin ExistingIDs) =>
       /\ RetErr = ErrGridNotFound
       /\ StoreUnchanged
       /\ RetReq.via = "http" => last'.status = 404
  /\ \A id \in GridIDs \ ExistingIDs' : NothingStoredFor(id)'

UnknownGrid == [][UnknownGridStep]_vars

\* ListCells was called for an identifier without a grid while a grid with
\* cells exists
UnknownGridListed ==
  /\ last.req.op = "list" /\ last.called
  /\ last.req.id \notin ExistingIDs
  /\ last.err = ErrGridNotFound
  /\ \E id \in ExistingIDs : StoredCells(id) # EmptyMap

\* C9 (stored cells are valid): every stored cell belongs to an existing
\* grid and its key is a coordinate within the grid's dimensions; a handler
\* that has reached its write has passed the checks; and the stored cells of
\* a grid change only in a step in which a SetCell or ReleaseCell of that
\* grid with a coordinate within the dimensions returns success, and only
\* at that coordinate.
CellsValid ==
  /\ \A id \in GridIDs : \A k \in DOMAIN StoredCells(id) :
       /\ id \in ExistingIDs
       /\ ~ParseCoordKey(k).err
       /\ Within(DimsOf(id), ParseCoordKey(k).coord)
  /\ \A p \in DOMAIN pc : pc[p] \in {"script", "hdel"} =>
       /\ req[p].id \in ExistingIDs
       /\ Within(DimsOf(req[p].id), req[p].coord)

CheckedWriteStep ==
  \A id \in GridIDs :
    StoredCells(id)' # StoredCells(id) =>
      /\ StoreReturns
      /\ RetReq.op \in {"claim", "release"}
      /\ RetReq.id = id
      /\ RetErr = NoErr
      /\ id \in ExistingIDs
      /\ Within(DimsOf(id), RetReq.coord)
      /\ \A k \in DOMAIN StoredCells(id) \cup DOMAIN StoredCells(id)' :
           k # CoordKey(RetReq.coord) =>
             /\ k \in DOMAIN StoredCells(id) /\ k \in DOMAIN StoredCells(id)'
             /\ StoredCells(id)'[k] = StoredCells(id)[k]

StoredCellsValid == []CellsValid /\ [][CheckedWriteStep]_vars

\* every cell of a grid is stored and a claim outside it has been refused
GridFull ==
  /\ \E id \in ExistingIDs :
       {ParseCoordKey(k).coord : k \in DOMAIN StoredCells(id)}
         = {c \in Coords : Within(DimsOf(id), c)}
  /\ last.req.op = "claim" /\ last.err \in {ErrOutOfBounds, ErrDimensionMismatch}

\* C10 (ListCells is exact): every list ListCells can return for an existing
\* grid has one entry for each coordinate with a claim in force, with the
\* value of that claim (the last accepted and not released), and no other
\* entry; and the cells a handler or caller is given are such a list.
ListsExact ==
  \A id \in ExistingIDs : \A cells \in ListResults(id) :
    /\ \A i \in 1..Len(cells) :
         /\ <<id, cells[i].Coord>> \in DOMAIN held
         /\ cells[i].Value = held[<<id, cells[i].Coord>>]
    /\ \A hk \in DOMAIN held :
         hk[1] = id => Cardinality({i \in 1..Len(cells) : cells[i].Coord = hk[2]}) = 1

ListedStep ==
  (StoreReturns /\ RetReq.op \in {"get", "list"} /\ RetErr = NoErr) =>
    last'.cells \in ListResults(RetReq.id)

ListCellsExact == []ListsExact /\ [][ListedStep]_vars

\* a list of two cells with different values was returned by RedisStore
ListedTwo ==
  /\ backend = "redis"
  /\ last.req.op \in {"get", "list"} /\ last.err = NoErr
  /\ Len(last.cells) = 2
  /\ last.cells[1].Value # last.cells[2].Value
  /\ \E i \in 1..2 : last.cells[i].Value = Str(<<"7">>)

(***************************************************************************)
(* Streams (SpecStream, SpecLive)                                          *)
(***************************************************************************)
\* the hello has been written to the connection of s
HelloWritten(s) == ws[s].conn # <<>> /\ ws[s].conn[1].payload.type = "hello"

\* the request of caller p has not been issued yet
NotIssued(p) == todo[p] # <<>>

\* the claim of caller p was answered 200
ClaimSucceeded(p) ==
  out[p] # <<>> /\ out[p][1].req.op = "claim" /\ out[p][1].status = 200

\* the cell_claimed event of p's claim, with the coordinate and the value
\* submitted, has been written to the connection of s
ClaimDelivered(s, p) ==
  \E i \in 1..Len(ws[s].conn) :
    /\ ws[s].conn[i].by = p
    /\ ws[s].conn[i].payload =
         [type |-> "cell_claimed", gridId |-> out[p][1].req.id,
          coord |-> out[p][1].req.coord, value |-> JsonMarshal(out[p][1].req.val)]

\* the client of s has disconnected or the request context was cancelled
Left(s) == ws[s].pc \in {"hello", "loop", "done"} /\ (~ws[s].peer \/ ws[s].ctx)

\* C11 (fan-out delivery): if the hello has been written on a stream for
\* grid g while a claim on g has not been issued yet, and that claim is then
\* answered 200, the stream eventually carries its cell_claimed event with
\* the coordinate and value submitted, unless the client leaves.
FanOutDelivery ==
  \A s \in Subs : \A p \in Callers :
    []((HelloWritten(s) /\ NotIssued(p) /\ Head(todo[p]).id = ws[s].id)
         => []((ClaimSucceeded(p)) => <>(ClaimDelivered(s, p) \/ Left(s))))

\* C11, for a stream whose subscription Redis has processed before the claim
\* is issued: the event is eventually written unless the client leaves.
FanOutDeliveryActive ==
  \A s \in Subs : \A p \in Callers :
    []((HelloWritten(s) /\ ws[s].active /\ NotIssued(p) /\ Head(todo[p]).id = ws[s].id)
         => []((ClaimSucceeded(p)) => <>(ClaimDelivered(s, p) \/ Left(s))))

\* a stream that had written its hello before the claim was issued carries
\* the claim's event
FannedOut ==
  \E s \in Subs : \E p \in Callers :
    /\ ClaimSucceeded(p)
    /\ ClaimDelivered(s, p)
    /\ ws[s].before = {}
    /\ ws[s].peer /\ ~ws[s].ctx

\* what a stream has received from Redis: written to the connection or not yet
Received(s) == ws[s].conn \o ws[s].ch

\* C12 (no replay): a stream never holds, and so never writes, an event that
\* had been published before Redis processed its subscription.
NoReplay ==
  \A s \in DOMAIN ws : \A i \in 1..Len(Received(s)) :
    Received(s)[i].by \notin ws[s].before

\* a live stream subscribed after an event of its grid was published, and
\* carrying the hello only
LateSubscriber ==
  \E s \in DOMAIN ws : \E p \in ws[s].before :
    /\ out[p][1].ev.channel = EventsChannel(ws[s].id)
    /\ ws[s].pc = "loop" /\ ws[s].active /\ ws[s].peer
    /\ ws[s].conn = <<HelloMessage(ws[s].id)>>
    /\ ws[s].ch = <<>>

\* the types of the events of a cell, handlers.go:203 and 281
CellEventTypes == {"cell_claimed", "cell_released"}

\* C13 (hello first): whatever a stream for grid g has written starts with
\* the hello of g, and everything after it is a cell event; nothing is
\* written before the upgrade.
HelloFirst ==
  \A s \in DOMAIN ws :
    /\ ws[s].pc \in {"idle", "refused", "hello"} => ws[s].conn = <<>>
    /\ ws[s].conn # <<>> =>
         /\ ws[s].conn[1] = HelloMessage(ws[s].id)
         /\ \A i \in 2..Len(ws[s].conn) :
              /\ ws[s].conn[i].by # 0
              /\ ws[s].conn[i].payload.type \in CellEventTypes

\* a stream has written its hello and then an event that Redis had handed
\* to it
HelloThenEvent ==
  \E s \in DOMAIN ws :
    /\ Len(ws[s].conn) = 2
    /\ ws[s].conn[1].payload.type = "hello"
    /\ ws[s].conn[2].payload.type \in CellEventTypes

\* the form in which the store keeps a value: the value in MemStore, its
\* JSON text in RedisStore
StoredForm(v) == IF backend = "mem" THEN v ELSE JsonMarshal(v)

\* the event a request gives rise to once the store has accepted it
EventOf(r) ==
  IF r.op = "claim" THEN CellEvent("cell_claimed", r.id, r.coord, r.val)
  ELSE CellEvent("cell_released", r.id, r.coord, Null)

\* the responses so far say which handlers published, and every message a
\* stream holds is the event of such a response
EventsReported ==
  /\ \A p \in DOMAIN out : \A i \in 1..Len(out[p]) :
       LET a == out[p][i]
       IN  /\ a.ev # NoEvent =>
                /\ a.req.op \in {"claim", "release"}
                /\ a.called /\ a.err = NoErr /\ a.status = 200
                /\ a.ev = EventOf(a.req)
           /\ (a.status # 200 \/ a.err # NoErr \/ ~a.called) => a.ev = NoEvent
  /\ \A s \in DOMAIN ws : \A i \in 1..Len(Received(s)) :
       LET m == Received(s)[i]
       IN  m.by # 0 =>
             /\ out[m.by] # <<>>
             /\ out[m.by][1].ev # NoEvent
             /\ m.payload = Payload(out[m.by][1].ev)

\* a step in which an event is published, or in which a stream is handed a
\* message, is the publish of a handler whose store call returned nil: the
\* store does not change, and the cell of a claim is stored with its value
PublishStep ==
  /\ \A p \in DOMAIN out :
       (Len(out'[p]) > Len(out[p]) /\ out'[p][Len(out'[p])].ev # NoEvent) =>
         /\ pc[p] = "publish"
         /\ store' = store
         /\ req[p].op = "claim" =>
              /\ CoordKey(req[p].coord) \in DOMAIN StoredCells(req[p].id)
              /\ StoredCells(req[p].id)[CoordKey(req[p].coord)] = StoredForm(req[p].val)
         /\ req[p].op = "release" =>
              CoordKey(req[p].coord) \notin DOMAIN StoredCells(req[p].id)
  /\ \A s \in DOMAIN ws :
       Len(ws'[s].ch) > Len(ws[s].ch) =>
         \E p \in DOMAIN out :
           /\ pc[p] = "publish"
           /\ Len(out'[p]) > Len(out[p])
           /\ out'[p][Len(out'[p])].ev = EventOf(req[p])

\* C14 (events only report committed transitions): an event is published
\* only by a claim or release whose store write succeeded, after the write;
\* a request answered with a conflict, a validation error, an unknown grid
\* or a store error has published nothing, and streams hold no other events.
EventsCommitted == []EventsReported /\ [][PublishStep]_vars

\* a stream carries the event of a claim whose cell is stored
CommittedEventSeen ==
  \E s \in DOMAIN ws : \E p \in DOMAIN out :
    /\ ClaimDelivered(s, p)
    /\ CoordKey(out[p][1].req.coord) \in DOMAIN StoredCells(out[p][1].req.id)

\* the cell of request r is as r left it: stored with the value of a claim,
\* absent after a release
Stands(r) ==
  IF r.op = "claim"
  THEN /\ CoordKey(r.coord) \in DOMAIN StoredCells(r.id)
       /\ StoredCells(r.id)[CoordKey(r.coord)] = StoredForm(r.val)
  ELSE CoordKey(r.coord) \notin DOMAIN StoredCells(r.id)

\* a handler that has reached the publish answers 200 in its next step,
\* whatever becomes of the publish, and that step leaves the store alone
SwallowStep ==
  \A p \in DOMAIN pc :
    (pc[p] = "publish" /\ pc'[p] # "publish") =>
      /\ store' = store
      /\ held' = held
      /\ last'.req = req[p]
      /\ last'.status = 200 /\ last'.err = NoErr

\* what the store accepted stands behind every handler at its publish and
\* behind every 200 of a claim or release over HTTP, published or not
AcceptedStands ==
  /\ \A p \in DOMAIN pc : pc[p] = "publish" => Stands(req[p])
  /\ \A p \in DOMAIN out : \A i \in 1..Len(out[p]) :
       (out[p][i].status = 200 /\ out[p][i].req.op \in {"claim", "release"})
         => Stands(out[p][i].req)

\* C15 (publish failures are swallowed): when the publish fails or there is
\* no pub/sub client, the claim or release is still answered 200 and what
\* the store accepted is not rolled back.
PublishSwallowed == []AcceptedStands /\ [][SwallowStep]_vars

\* a claim was answered 200 although its publish failed, and its cell is
\* stored
PublishFailedClaimStands ==
  \E p \in DOMAIN out :
    /\ out[p] # <<>>
    /\ out[p][1].req.op = "claim" /\ out[p][1].status = 200
    /\ hasRedis /\ out[p][1].ev = NoEvent
    /\ Stands(out[p][1].req)

\* HandleGridWS has returned: the subscription and the connection are closed
HandlerReturned(s) ==
  ws[s].pc = "done" /\ ~ws[s].active /\ ws[s].ch = <<>>

\* once the handler has returned nothing is written to its connection and
\* Redis hands it nothing
QuietAfterReturn ==
  \A s \in DOMAIN ws :
    ws[s].pc = "done" =>
      /\ ws'[s].pc = "done"
      /\ ws'[s].conn = ws[s].conn
      /\ ws'[s].ch = <<>> /\ ~ws'[s].active

\* C16 (unsubscribe on disconnect): once the client of a stream has
\* disconnected or its context is cancelled, the handler eventually returns
\* with the subscription and the connection closed, and nothing is written
\* to the connection afterwards.
UnsubscribeOnDisconnect ==
  /\ \A s \in Subs : Left(s) ~> HandlerReturned(s)
  /\ [][QuietAfterReturn]_vars

\* the handler of a stream whose client left has returned, and a published
\* event of its grid is not on its connection
ReturnedBeforeEvent ==
  \E s \in DOMAIN ws : \E p \in DOMAIN out :
    /\ HandlerReturned(s) /\ ~ws[s].peer /\ ws[s].reader = "done"
    /\ ws[s].before = {}
    /\ ws[s].conn = <<HelloMessage(ws[s].id)>>
    /\ out[p] # <<>> /\ out[p][1].ev.channel = EventsChannel(ws[s].id)

\* C17 (linked termination): once the reader goroutine or the forwarding
\* loop of a stream has ended, eventually both have ended and the
\* subscription is closed.
LinkedTermination ==
  \A s \in Subs :
    (ws[s].reader = "done" \/ ws[s].pc = "done")
      ~> (ws[s].reader = "done" /\ HandlerReturned(s))

\* both have ended although the client never disconnected: the loop ended
\* first and the reader's read failed on the closed connection
BothEnded ==
  \E s \in DOMAIN ws :
    ws[s].reader = "done" /\ HandlerReturned(s) /\ ws[s].peer

\* C18 (per-grid isolation): the event of a request on grid g is published
\* on the channel of g and names g, and every event a stream holds or has
\* written comes from a request on the stream's grid and names that grid.
PerGridIsolation ==
  /\ \A p \in DOMAIN out : \A i \in 1..Len(out[p]) :
       out[p][i].ev # NoEvent =>
         /\ out[p][i].ev.channel = <<"grid:", out[p][i].req.id, ":events">>
         /\ out[p][i].ev.gridId = out[p][i].req.id
  /\ \A s \in DOMAIN ws : \A i \in 1..Len(Received(s)) :
       LET m == Received(s)[i]
       IN  /\ m.payload.gridId = ws[s].id
           /\ m.by # 0 => out[m.by][1].req.id = ws[s].id

\* of two live streams for different grids, one has written the event of a
\* request on its grid and the other holds nothing but its hello
OtherGridQuiet ==
  \E s, t \in DOMAIN ws :
    /\ ws[s].id # ws[t].id
    /\ ws[s].pc = "loop" /\ Len(ws[s].conn) = 2 /\ ws[s].conn[2].by # 0
    /\ ws[t].pc = "loop" /\ ws[t].active /\ ws[t].before = {}
    /\ ws[t].conn = <<HelloMessage(ws[t].id)>> /\ ws[t].ch = <<>>

(***************************************************************************)
(* The frame of a claim or release (SpecStream)                            *)
(***************************************************************************)
\* what the store holds of a grid besides its cells: the Grid without Cells
\* in MemStore, the meta hash in RedisStore
MetaOf(id) ==
  IF backend = "mem"
  THEN IF id \in DOMAIN grids
       THEN [ID |-> grids[id].ID, Dimensions |-> grids[id].Dimensions,
             DefaultVal |-> grids[id].DefaultVal]
       ELSE NoGrid
  ELSE HGetAll(rdb, metaKey(id))

\* the request handler p works on in this step: the one that arrives, or
\* the one it has in hand
StepReq(p) ==
  IF pc[p] # "idle" THEN req[p]
  ELSE IF p \in DOMAIN todo /\ todo[p] # <<>> THEN Head(todo[p]) ELSE NoReq

\* the stored cell k of grid id differs after the step
CellChanged(id, k) ==
  \/ (k \in DOMAIN StoredCells(id)) # (k \in DOMAIN StoredCells(id)')
  \/ /\ k \in DOMAIN StoredCells(id) /\ k \in DOMAIN StoredCells(id)'
     /\ StoredCells(id)'[k] # StoredCells(id)[k]

\* no step changes the metadata of a grid or the grids there are, and a
\* cell changes only in a step of a claim or release of that very cell
FrameStep ==
  /\ DOMAIN grids' = DOMAIN grids
  /\ \A key \in DOMAIN rdb \cup DOMAIN rdb' :
       key \notin {cellsKey(id) : id \in KnownIDs} =>
         /\ key \in DOMAIN rdb /\ key \in DOMAIN rdb'
         /\ rdb'[key] = rdb[key]
  /\ \A id \in KnownIDs :
       /\ MetaOf(id)' = MetaOf(id)
       /\ \A k \in DOMAIN StoredCells(id) \cup DOMAIN StoredCells(id)' :
            CellChanged(id, k) =>
              \E p \in DOMAIN pc :
                /\ pc'[p] # pc[p]
                /\ StepReq(p).op \in {"claim", "release"}
                /\ StepReq(p).id = id
                /\ CoordKey(StepReq(p).coord) = k

\* C19 (frame of Claim / Release): a claim or release, accepted or refused,
\* changes no other cell of its grid, no cell of another grid and no grid
\* metadata.
ClaimReleaseFrame == [][FrameStep]_vars

\* a claim of a free cell of g_1 was accepted, while the cell claimed on
\* g_1 before and the one claimed on g_2 are stored as they were and the
\* same coordinate of g_2 is still free
OthersUntouched ==
  /\ \E p \in DOMAIN out :
       /\ out[p] # <<>> /\ out[p][1].status = 200
       /\ out[p][1].req.op = "claim" /\ out[p][1].req.id = "g_1"
       /\ out[p][1].req.coord # TakenCell
       /\ Stands(out[p][1].req)
  /\ \A id \in {"g_1", "g_2"} :
       /\ CoordKey(TakenCell) \in DOMAIN StoredCells(id)
       /\ StoredCells(id)[CoordKey(TakenCell)] = StoredForm(Num(7))
  /\ CoordKey(<<0, 0>>) \notin DOMAIN StoredCells("g_2")

(***************************************************************************)
(* The answers of POST /grids/{id}/claim (Spec)                            *)
(***************************************************************************)
\* the status the store as it is calls for: the coordinate is required
\* before the store is asked, the grid is looked up before the coordinate
\* is checked, the cell is tested last
Expected(r) ==
  IF Len(r.coord) = 0 THEN 400
  ELSE IF r.id \notin ExistingIDs THEN 404
  ELSE IF ~Within(DimsOf(r.id), r.coord) THEN 400
  ELSE IF CoordKey(r.coord) \in DOMAIN StoredCells(r.id) THEN 409
  ELSE 200

\* the body that goes with a status
ExpectedBody(status, r) ==
  IF status = 200 THEN {[success |-> "true", error |-> ""]}
  ELSE IF status = 409 THEN {[success |-> "false", error |-> "cell already set"]}
  ELSE IF status = 404 THEN {[success |-> "", error |-> "grid not found"]}
  ELSE {[success |-> "", error |-> e] :
          e \in {"coord required", ErrDimensionMismatch, ErrOutOfBounds}}

\* a step of the handler on a well-formed claim: it answers with the status
\* the store calls for and leaves the store alone, or the store calls for
\* 200 and it goes on to the write and the publish, where it answers 200
ClaimOutcomeStep ==
  \A p \in DOMAIN pc :
    LET r == IF pc'[p] = "idle" THEN last'.req ELSE req'[p]
        body == ClaimBody(last'.req, last'.called, last'.err)
    IN  (/\ pc'[p] # pc[p] \/ last'.seq # last.seq
         /\ r.op = "claim" /\ r.via = "http" /\ r.http = "ok") =>
          \/ /\ pc[p] = "idle" /\ pc'[p] = "script"
             /\ Expected(r) \in {200, 409}
             /\ StoreUnchanged
          \/ /\ pc[p] \in {"idle", "script"} /\ pc'[p] = "publish"
             /\ Expected(r) = 200
          \/ /\ pc[p] \in {"idle", "script"} /\ pc'[p] = "idle"
             /\ Expected(r) # 200
             /\ last'.status = Expected(r)
             /\ body \in ExpectedBody(last'.status, r)
             /\ StoreUnchanged
          \/ /\ pc[p] = "publish" /\ pc'[p] = "idle"
             /\ last'.req = req[p]
             /\ last'.status = 200
             /\ body \in ExpectedBody(200, r)
             /\ StoreUnchanged

\* the write of a handler that is about to answer 200 has been made
ClaimWritten ==
  \A p \in DOMAIN pc :
    (pc[p] = "publish" /\ req[p].op = "claim") => Stands(req[p])

\* C20 (HTTP outcome of a claim): a well-formed POST /grids/{id}/claim is
\* answered 400 when the coordinate is missing, else 404 when the grid does
\* not exist, else 400 when the coordinate has the wrong length or is out of
\* bounds, else 409 {success:false, error:"cell already set"} when the cell
\* is claimed, and 200 {success:true} exactly in the remaining case, in
\* which the cell is written; a conflict is never answered with a 5xx.
ClaimOutcome == []ClaimWritten /\ [][ClaimOutcomeStep]_vars

\* a claim of a cell that is held was answered 409 with success false and
\* the error "cell already set"
ConflictAnswered ==
  /\ last.req.op = "claim" /\ last.req.via = "http" /\ last.status = 409
  /\ ClaimBody(last.req, last.called, last.err)
       = [success |-> "false", error |-> "cell already set"]
  /\ CoordKey(last.req.coord) \in DOMAIN StoredCells(last.req.id)

(***************************************************************************)
(* Failing Redis commands (SpecFault)                                      *)
(***************************************************************************)
\* the errors of a store method that are not one of its four answers: a
\* Redis command that failed, grid metadata that does not decode
StoreFailures == {ErrStore, ErrInvalidMeta, ErrScan}

\* response a reports a store failure as an opaque internal failure
Opaque(a) ==
  (a.called /\ a.err \in StoreFailures /\ a.req.via = "http") =>
    /\ a.status = 500
    /\ ErrorText(a.req, a.called, a.err) = "internal error"

\* a step in which a Redis command of a handler fails, the publish aside:
\* the handler answers in that very step, with the error of that command
NotRetried ==
  /\ \A p \in DOMAIN pc :
       (faults' < faults /\ pc[p] # "publish"
          /\ (pc'[p] # pc[p] \/ last'.seq # last.seq)) =>
         /\ faults' = faults - 1
         /\ pc'[p] = "idle"
         /\ last'.called /\ last'.err = ErrStore
  /\ \A s \in DOMAIN ws :
       (faults' < faults /\ ws'[s].pc # ws[s].pc) =>
         /\ ws[s].pc = "idle" /\ ws'[s].pc = "refused"
         /\ ws'[s].status = 500
         /\ ws'[s].conn = <<>> /\ ~ws'[s].active

\* C21 (store-unavailable handling), as stated: every store failure, of
\* create grid as of the other operations, is answered 500 "internal error",
\* and the failed command is not tried again.
StoreFailureOpaque ==
  /\ [](\A p \in DOMAIN out : \A i \in 1..Len(out[p]) : Opaque(out[p][i]))
  /\ [][NotRetried]_vars

\* C21 for get grid, claim, release and open stream: a store failure is
\* answered 500 "internal error" and the failed command is not tried again.
StoreFailureOpaqueButCreate ==
  /\ [](\A p \in DOMAIN out : \A i \in 1..Len(out[p]) :
          out[p][i].req.op # "create" => Opaque(out[p][i]))
  /\ [][NotRetried]_vars

\* a claim on an existing grid was answered 500 after its script failed
ClaimFailedOpaque ==
  \E p \in DOMAIN out :
    /\ Len(out[p]) = 2
    /\ out[p][1].status = 201
    /\ out[p][2].req.op = "claim" /\ out[p][2].err = ErrStore
    /\ out[p][2].status = 500

(***************************************************************************)
(* Stream requests that are refused (SpecStream)                           *)
(***************************************************************************)
\* a stream that was answered without an upgrade: no subscription, nothing
\* written, no reader goroutine
NeverOpened(w) ==
  /\ w.pc = "refused" /\ w.status # 101
  /\ ~w.active /\ w.ch = <<>> /\ w.conn = <<>>
  /\ ~w.peer /\ w.reader = "none"

\* the request for a stream arrives for a grid that does not exist: it is
\* answered in that step, 404 if there is a pub/sub client and GetGrid
\* returned, and 500 otherwise
RefusedStep ==
  \A s \in DOMAIN ws :
    (ws[s].pc = "idle" /\ ws'[s].pc # "idle" /\ ws'[s].id \notin ExistingIDs) =>
      /\ NeverOpened(ws'[s])
      /\ ws'[s].status = IF hasRedis /\ faults' = faults THEN 404 ELSE 500

\* C22 (stream request for an unknown grid): GET /grids/{id}/ws for an
\* identifier with no grid is answered 404 without an upgrade, and at no
\* time is there a subscription for it or anything written to it.
UnknownGridStream ==
  /\ [](\A s \in DOMAIN ws :
          (ws[s].pc # "idle" /\ ws[s].id \notin ExistingIDs) => NeverOpened(ws[s]))
  /\ [][RefusedStep]_vars

\* a stream for g_x was answered 404 while a stream for g_1 is live and an
\* event has been published
UnknownStreamRefused ==
  \E s, t \in DOMAIN ws :
    /\ ws[s].id = "g_x" /\ ws[s].pc = "refused" /\ ws[s].status = 404
    /\ ws[t].id = "g_1" /\ ws[t].pc = "loop" /\ ws[t].active
    /\ Published # {}

(***************************************************************************)
(* Grids and their metadata (Spec)                                         *)
(***************************************************************************)
\* dims is empty or has an entry that is not positive
InvalidDimensions(dims) == dims = <<>> \/ \E i \in 1..Len(dims) : dims[i] <= 0

\* a CreateGrid with invalid dimensions returns an error and no grid, the
\* store and the set of grids are as before, and over HTTP the answer is 400
CreateRejectedStep ==
  (StoreReturns /\ RetReq.op = "create" /\ InvalidDimensions(RetReq.dims)) =>
    /\ RetErr \in {ErrDimensionsRequired, ErrDimensionsPositive}
    /\ last'.g = NoGrid
    /\ StoreUnchanged
    /\ ExistingIDs' = ExistingIDs
    /\ RetReq.via = "http" => last'.status = 400

\* C23 (CreateGrid rejects invalid dimensions): CreateGrid with dimensions
\* that are empty or have an entry <= 0 fails, assigns no identifier and
\* persists nothing, so the existing grids are unchanged; HTTP answers 400.
CreateRejectsInvalid == [][CreateRejectedStep]_vars

\* a CreateGrid with an entry <= 0 was answered 400 while g_1 exists
CreateRefused ==
  /\ last.req.op = "create" /\ last.req.via = "http" /\ last.called
  /\ last.req.dims # <<>> /\ InvalidDimensions(last.req.dims)
  /\ last.status = 400 /\ last.g = NoGrid
  /\ ExistingIDs = {"g_1"}

\* the grids that exist in a store, and what GetGrid reports of one
GridsIn(gs, db) ==
  IF backend = "mem" THEN DOMAIN gs
  ELSE {id \in KnownIDs : metaKey(id) \in DOMAIN db}

GetGridIn(gs, db, id) ==
  IF backend = "mem" THEN MemGetGrid(gs, id) ELSE RedisGetGrid(db, id)

\* GetGrid succeeds on every grid of the store, with dimensions that are a
\* non-empty sequence of integers above 0
GridWellFormed(gs, db) ==
  \A id \in GridsIn(gs, db) :
    LET m == GetGridIn(gs, db, id)
    IN  /\ m.err = NoErr
        /\ m.g.Dimensions # <<>>
        /\ \A i \in 1..Len(m.g.Dimensions) : m.g.Dimensions[i] > 0

\* a grid that exists goes on existing, with the metadata it has and the
\* dimensions GetGrid reports
MetadataKept ==
  \A id \in GridsIn(grids, rdb) :
    /\ id \in GridsIn(grids', rdb')
    /\ backend = "mem" =>
         /\ grids'[id].ID = grids[id].ID
         /\ grids'[id].Dimensions = grids[id].Dimensions
         /\ grids'[id].DefaultVal = grids[id].DefaultVal
    /\ backend = "redis" => rdb'[metaKey(id)] = rdb[metaKey(id)]
    /\ GetGridIn(grids', rdb', id).g.Dimensions = GetGridIn(grids, rdb, id).g.Dimensions

\* C24 (grid invariant): every stored grid has non-empty dimensions with all
\* entries above 0, and no operation changes or deletes the metadata of a
\* grid, so the dimensions GetGrid returns for an identifier never change.
GridInvariant ==
  GridWellFormed(grids, rdb) /\ [][GridWellFormed(grids', rdb') /\ MetadataKept]_vars

\* a cell of g_1 was claimed and then released, the release removing the
\* value, and GetGrid still reports the dimensions [1, 2] from Redis
DimensionsAfterRelease ==
  /\ backend = "redis"
  /\ last.req.op = "release" /\ last.req.id = "g_1" /\ last.called
  /\ last.err = NoErr /\ last.found
  /\ RedisGetGrid(rdb, "g_1").err = NoErr
  /\ RedisGetGrid(rdb, "g_1").g.Dimensions = <<1, 2>>

\* a CreateGrid that succeeds returns a grid with the dimensions and the
\* default it was given, and GetGrid on the identifier of that grid then
\* reports the same three fields
CreateGetStep ==
  (StoreReturns /\ RetReq.op = "create" /\ RetErr = NoErr) =>
    /\ last'.g.ID \notin GridsIn(grids, rdb)
    /\ last'.g.Dimensions = RetReq.dims
    /\ last'.g.DefaultVal = RetReq.val
    /\ GetGridIn(grids', rdb', last'.g.ID) =
         [err |-> NoErr,
          g |-> [ID |-> last'.g.ID, Dimensions |-> RetReq.dims,
                 DefaultVal |-> RetReq.val]]

\* what GetGrid reports of an existing grid stays what it is
GetGridKept ==
  \A id \in GridsIn(grids, rdb) :
    GetGridIn(grids', rdb', id) = GetGridIn(grids, rdb, id)

\* the GetGrid of a handler hands it what the store holds for the identifier
GetGridStep ==
  \A p \in DOMAIN pc :
    (pc[p] = "idle" /\ pc'[p] = "list" /\ req'[p].op = "get") =>
      loc'[p].g = GetGridIn(grids, rdb, req'[p].id).g

\* C25 (create/get round trip): GetGrid on the identifier returned by a
\* successful CreateGrid(d, v) returns that identifier, dimensions equal to
\* d and a default equal to v, at once and after any further operations.
CreateGetRoundTrip == [][CreateGetStep /\ GetGridKept /\ GetGridStep]_vars

\* the GetGrid of a handler on RedisStore returned g_1 with the dimensions
\* [1, 2] and the default 7 it was created with
RoundTripSeen ==
  /\ backend = "redis"
  /\ \E p \in DOMAIN pc :
       /\ pc[p] = "list" /\ req[p].op = "get"
       /\ loc[p].g = [ID |-> "g_1", Dimensions |-> <<1, 2>>, DefaultVal |-> Num(7)]

(***************************************************************************)
(* The codec on its own (SpecCodec): CoordKey applied to a coordinate and  *)
(* ParseCoordKey to the key, or ParseCoordKey applied to a text that no    *)
(* CoordKey made, which is also a field of the cells of g_1 in Redis as    *)
(* another writer of the database left it, next to the cell [0, 0].        *)
(***************************************************************************)
MaxComponent == 11

CodecLens == 1..3

\* the coordinates encoded: 1 to 3 components in 0..MaxComponent
CodecCoords == UNION {[1..n -> 0..MaxComponent] : n \in CodecLens}

KeyAlphabet == {"0", "1", ":", "-", "+", "x"}

KeyLens == 0..4

\* the texts decoded that are not made by CoordKey
CodecKeys == UNION {[1..n -> KeyAlphabet] : n \in KeyLens}

CodecStarts ==
  {[NoCodec EXCEPT !.pc = "coord", !.coord = c] : c \in CodecCoords}
  \cup {[NoCodec EXCEPT !.pc = "key", !.key = k] : k \in CodecKeys}

CodecLister == {1}

\* g_1 with dimensions [1, 2], the cell [0, 0] = 7, and the field key = "7"
ForeignDB(key) ==
  LET meta  == RedisCreateGrid(EmptyMap, "g_1", <<1, 2>>, Null).db
      cells == HSet(meta, cellsKey("g_1"), CoordKey(<<0, 0>>), JsonMarshal(Num(7)))
  IN  HSet(cells, cellsKey("g_1"), key, JsonMarshal(Str(<<"7">>)))

CodecInit ==
  /\ backend = "redis"
  /\ hasRedis = FALSE
  /\ codec \in CodecStarts
  /\ mu = NoLock
  /\ client = NoClient
  /\ grids = EmptyMap
  /\ rdb = IF codec.pc = "key" THEN ForeignDB(codec.key)
           ELSE RedisCreateGrid(EmptyMap, "g_1", <<1, 2>>, Null).db
  /\ InitProcs(CodecLister)
  /\ todo = EmptyMap
  /\ out = EmptyMap
  /\ held = EmptyMap
  /\ faults = 0
  /\ ws = EmptyMap

\* key := CoordKey(coord)
CallCoordKey ==
  /\ codec.pc = "coord"
  /\ codec' = [codec EXCEPT !.pc = "key", !.key = CoordKey(codec.coord)]
  /\ UNCHANGED <<store, pc, req, loc, last, todo, out, held, faults, ws, mu, client>>

\* parsed, err := ParseCoordKey(key)
CallParseCoordKey ==
  /\ codec.pc = "key"
  /\ codec' = [codec EXCEPT !.pc = "done",
                            !.err = ParseCoordKey(codec.key).err,
                            !.parsed = ParseCoordKey(codec.key).coord]
  /\ UNCHANGED <<store, pc, req, loc, last, todo, out, held, faults, ws, mu, client>>

CodecNext ==
  \/ CallCoordKey
  \/ CallParseCoordKey
  \/ \E p \in CodecLister : ListCells(p)
  \/ \E p \in CodecLister : ListCellsHGetAll(p)

SpecCodec == CodecInit /\ [][CodecNext]_vars

\* C26 (codec round trip): for every non-empty sequence c of non-negative
\* integers ParseCoordKey(CoordKey(c)) returns c and no error.
CodecRoundTrip ==
  (codec.pc = "done" /\ codec.coord # <<>>) =>
    ~codec.err /\ codec.parsed = codec.coord

\* [1, 0, 11] was written as "1:0:11" and read back
RoundTripDone ==
  /\ codec.pc = "done"
  /\ codec.coord = <<1, 0, 11>>
  /\ codec.key = <<"1", ":", "0", ":", "1", "1">>
  /\ codec.parsed = <<1, 0, 11>>

\* the key of every coordinate
KeyTable == [c \in CodecCoords |-> CoordKey(c)]

\* C27 (codec collision-free): two distinct non-empty sequences of
\* non-negative integers, of equal or of different lengths, have different
\* keys: the key CoordKey made of a coordinate is the key of no other one.
CodecCollisionFree ==
  (codec.pc = "key" /\ codec.coord # <<>>) =>
    \A other \in CodecCoords : KeyTable[other] = codec.key => other = codec.coord

\* the key of [1, 0] is "1:0", that of [10] is "10" and that of [1] is "1"
KeysApart ==
  /\ codec.pc = "key"
  /\ codec.coord = <<1, 0>>
  /\ codec.key = <<"1", ":", "0">>
  /\ KeyTable[<<10>>] = <<"1", "0">>
  /\ KeyTable[<<1>>] = <<"1">>

\* the texts between the colons of a key, the empty ones included
Segments(key) ==
  {SubSeq(key, ab[1], ab[2]) :
     ab \in {x \in (1..(Len(key) + 1)) \X (0..Len(key)) :
               /\ x[2] >= x[1] - 1
               /\ (x[1] = 1 \/ key[x[1] - 1] = ":")
               /\ (x[2] = Len(key) \/ key[x[2] + 1] = ":")
               /\ \A i \in x[1]..x[2] : key[i] # ":"}}

\* a decimal integer: digits, after one sign or none
IsInteger(seg) ==
  LET body == IF seg # <<>> /\ seg[1] \in {"+", "-"} THEN Tail(seg) ELSE seg
  IN  body # <<>> /\ \A i \in 1..Len(body) : IsDigit(body[i])

\* the fields of the cells of g_1 that decode
Decodable == {k \in DOMAIN HGetAll(rdb, cellsKey("g_1")) : ~ParseCoordKey(k).err}

\* C28 (decode errors): ParseCoordKey returns an error whenever a segment
\* between colons is not an integer (and only then), returns the empty
\* sequence and no error for the empty string, and ListCells leaves out an
\* entry whose key does not decode and lists the others without failing.
DecodeErrors ==
  /\ (codec.pc = "done" /\ codec.key = <<>>) => ~codec.err /\ codec.parsed = <<>>
  /\ (codec.pc = "done" /\ codec.key # <<>>) =>
       (codec.err <=> \E seg \in Segments(codec.key) : ~IsInteger(seg))
  /\ (last.req.op = "list" /\ last.req.id = "g_1" /\ last.called) =>
       /\ last.err = NoErr
       /\ Len(last.cells) = Cardinality(Decodable)
       /\ {last.cells[i].Coord : i \in 1..Len(last.cells)} =
            {ParseCoordKey(k).coord : k \in Decodable}

\* ParseCoordKey refused "1:x" and ListCells, with that field among the
\* cells of g_1, listed the cell [0, 0] alone
BadKeyDropped ==
  /\ codec.pc = "done" /\ codec.err
  /\ codec.key = <<"1", ":", "x">>
  /\ codec.key \in DOMAIN HGetAll(rdb, cellsKey("g_1"))
  /\ last.req.op = "list" /\ last.req.id = "g_1" /\ last.called /\ last.err = NoErr
  /\ Len(last.cells) = 1 /\ last.cells[1].Coord = <<0, 0>>

(***************************************************************************)
(* The view of a subscriber (SpecView): a stream on g_1 that is open and   *)
(* subscribed before any request, two clients that each send up to two     *)
(* claims or releases of the cell [0, 0], no failing Redis command and a   *)
(* connection that stays up.  The subscriber is the demo client, which     *)
(* applies each message to its cellState as it arrives.                    *)
(***************************************************************************)
ViewClients == {1, 2}

ViewSubs == {1}

ViewRequests == {Claim(<<0, 0>>, v) : v \in Values} \cup {Release(<<0, 0>>)}

ViewScripts ==
  {<<>>} \cup {<<a>> : a \in ViewRequests}
         \cup {<<a, b>> : a \in ViewRequests, b \in ViewRequests}

ViewInit ==
  /\ backend = "redis"
  /\ hasRedis = TRUE
  /\ grids = EmptyMap
  /\ rdb = RedisCreateGrid(EmptyMap, "g_1", <<1, 2>>, Null).db
  /\ InitProcs(ViewClients)
  /\ todo \in [ViewClients -> ViewScripts]
  /\ out = [p \in ViewClients |-> <<>>]
  /\ held = EmptyMap
  /\ faults = 0
  /\ ws = [s \in ViewSubs |->
             [NoStream EXCEPT !.pc = "loop", !.id = "g_1", !.status = 101,
                              !.active = TRUE, !.peer = TRUE, !.reader = "running",
                              !.conn = <<HelloMessage("g_1")>>]]
  /\ codec = NoCodec
  /\ mu = NoLock
  /\ client = NoClient

ViewNext ==
  \/ \E p \in ViewClients :
       \/ SetCell(p)
       \/ SetCellScript(p)
       \/ ReleaseCell(p)
       \/ ReleaseCellHDel(p)
       \/ Publish(p)
  \/ \E s \in ViewSubs : WSForward(s)

SpecView == ViewInit /\ [][ViewNext]_vars

\* handleRealtimeUpdate of the demo client: cellState after one message
handleRealtimeUpdate(cellState, ev) ==
  IF ev.type = "hello" THEN cellState
  ELSE IF Len(ev.coord) # 2 THEN cellState
  ELSE IF ev.type = "cell_claimed"
  THEN MapPut(cellState, CoordKey(ev.coord), ev.value)
  ELSE IF ev.type = "cell_released"
  THEN MapDelete(cellState, CoordKey(ev.coord))
  ELSE cellState

\* cellState after the messages msgs, applied in their order
RECURSIVE ApplyEvents(_, _)
ApplyEvents(cellState, msgs) ==
  IF msgs = <<>> THEN cellState
  ELSE ApplyEvents(handleRealtimeUpdate(cellState, Head(msgs).payload), Tail(msgs))

\* the view of subscriber s, as the cells ListCells would list them
ViewOf(s) ==
  LET cellState == ApplyEvents(EmptyMap, ws[s].conn)
  IN  {[Coord |-> ParseCoordKey(k).coord, Value |-> RedisCellValue(cellState[k])] :
         k \in DOMAIN cellState}

\* every request is answered and every published event is with the client
Quiescent ==
  /\ \A p \in DOMAIN pc : pc[p] = "idle" /\ todo[p] = <<>>
  /\ \A s \in DOMAIN ws : ws[s].ch = <<>>

\* the view of every subscriber holds the cells ListCells(g_1) returns
ViewIsStore ==
  \A s \in DOMAIN ws : \A cells \in ListResults("g_1") :
    ViewOf(s) = {cells[i] : i \in 1..Len(cells)}

\* C29 as stated (the event-derived view converges to the store): once all
\* requests have completed and all events were delivered, the view of the
\* subscriber equals ListCells(g), for every interleaving of the handlers'
\* store writes and publishes.
ViewConverges == Quiescent => ViewIsStore

\* at most one client has sent requests
OneClient == \E p \in DOMAIN out : \A q \in DOMAIN out \ {p} : out[q] = <<>>

\* C29 for requests sent one after the other: when all requests came from
\* one client, each sent after the answer to the one before, the view of the
\* subscriber equals ListCells(g) once all events were delivered.
ViewConvergesInSequence == (Quiescent /\ OneClient) => ViewIsStore

\* one client claimed [0, 0] and released it, the other sent nothing, and
\* the subscriber holds the hello and both events, and no cell
SequenceConverged ==
  /\ Quiescent /\ OneClient
  /\ \E p \in DOMAIN out :
       /\ Len(out[p]) = 2
       /\ out[p][1].req.op = "claim" /\ out[p][2].req.op = "release"
  /\ \A s \in DOMAIN ws : Len(ws[s].conn) = 3 /\ ViewOf(s) = {}
  /\ ViewIsStore

(***************************************************************************)
(* Accounting of one cell (SpecRace)                                       *)
(***************************************************************************)
\* the responses written so far, as <<handler, position>>
Answers == UNION {{<<p, i>> : i \in 1..Len(out[p])} : p \in DOMAIN out}

\* the SetCell calls on cell c of g_1 that have returned nil: answered, or
\* with the event still to publish
ClaimsSucceeded(c) ==
  Cardinality({a \in Answers :
                 LET r == out[a[1]][a[2]]
                 IN  /\ r.req.op = "claim" /\ r.req.id = "g_1" /\ r.req.coord = c
                     /\ r.called /\ r.err = NoErr})
  + Cardinality({p \in DOMAIN pc :
                   /\ pc[p] = "publish"
                   /\ req[p].op = "claim" /\ req[p].id = "g_1" /\ req[p].coord = c})

\* the ReleaseCell calls on cell c of g_1 that have returned nil after
\* removing a value
ReleasesRemoved(c) ==
  Cardinality({a \in Answers :
                 LET r == out[a[1]][a[2]]
                 IN  /\ r.req.op = "release" /\ r.req.id = "g_1" /\ r.req.coord = c
                     /\ r.called /\ r.err = NoErr /\ r.found})
  + Cardinality({p \in DOMAIN pc :
                   /\ pc[p] = "publish" /\ loc[p].found
                   /\ req[p].op = "release" /\ req[p].id = "g_1" /\ req[p].coord = c})

\* C30 (claim/release accounting): for each cell, the number of Claims that
\* returned success minus the number of Releases that removed a value is 1
\* when the cell is claimed and 0 when it is not, in every state of every
\* interleaving; so a second Claim succeeds only after a Release removed
\* the value of the first.
ClaimReleaseAccounting ==
  \A c \in RaceCells :
    ClaimsSucceeded(c) - ReleasesRemoved(c) =
      IF CoordKey(c) \in DOMAIN StoredCells("g_1") THEN 1 ELSE 0

\* three concurrent requests on one cell are answered: two claims succeeded
\* and one release removed a value between them, and the cell is claimed
ClaimedTwice ==
  \E c \in RaceCells :
    /\ \A p \in DOMAIN pc : pc[p] = "idle" /\ todo[p] = <<>>
    /\ ClaimsSucceeded(c) = 2
    /\ ReleasesRemoved(c) = 1
    /\ CoordKey(c) \in DOMAIN StoredCells("g_1")

(***************************************************************************)
(* The event of a release (SpecStream)                                     *)
(***************************************************************************)
\* a ReleaseCell that returns nil to HandleReleaseCell takes the handler to
\* its publish, whether or not a value was removed
ReleaseAcceptedStep ==
  (StoreReturns /\ RetReq.op = "release" /\ RetReq.via = "http" /\ RetErr = NoErr) =>
    \E p \in Acceptor : req'[p] = RetReq

\* the publish of a release: with a pub/sub client and a PUBLISH that does
\* not fail, the event cell_released of the request's grid and coordinate,
\* without a value, goes once to every stream subscribed to the grid, and
\* the handler is done
ReleasePublishStep ==
  \A p \in DOMAIN pc :
    (pc[p] = "publish" /\ req[p].op = "release" /\ pc'[p] # "publish") =>
      LET ev == out'[p][Len(out'[p])].ev
      IN  /\ pc'[p] = "idle"
          /\ Len(out'[p]) = Len(out[p]) + 1
          /\ (hasRedis /\ faults' = faults) =>
               /\ ev.type = "cell_released"
               /\ ev.gridId = req[p].id /\ ev.coord = req[p].coord
               /\ ev.value = <<>>
               /\ ev.channel = EventsChannel(req[p].id)
               /\ \A s \in DOMAIN ws :
                    ws'[s].ch =
                      IF ws[s].active /\ ws[s].id = req[p].id
                      THEN Append(ws[s].ch, [by |-> p, payload |-> Payload(ev)])
                      ELSE ws[s].ch

\* C31 (release always notifies): every release request the store accepts
\* publishes exactly one cell_released event with the request's grid and
\* coordinate and no value, also when the cell was not claimed and nothing
\* was removed.
ReleaseNotifies == [][ReleaseAcceptedStep /\ ReleasePublishStep]_vars

\* a release of a cell that was not claimed removed nothing, and a stream
\* of the grid was handed its cell_released
ReleasedNothingNotified ==
  \E p \in DOMAIN out : \E s \in DOMAIN ws :
    /\ out[p] # <<>>
    /\ out[p][1].req.op = "release" /\ ~out[p][1].found /\ out[p][1].status = 200
    /\ out[p][1].ev.type = "cell_released"
    /\ \E i \in 1..Len(Received(s)) :
         Received(s)[i] = [by |-> p, payload |-> Payload(out[p][1].ev)]

(***************************************************************************)
(* Claims against a grid that holds cells (SpecClaim): g_1 of dimensions   *)
(* [1, 2] with the cell [0, 0] claimed and, in Redis, possibly a field of  *)
(* a coordinate outside the grid that another writer of the database left; *)
(* one handler serving any claim.                                          *)
(***************************************************************************)
\* the coordinates of the fields left in grid:g_1:cells, none for <<>>
ForeignCoords == {<<>>, <<1, 0>>, <<1, 1>>}

ClaimGridMem ==
  MemSetCell(MemCreateGrid(EmptyMap, "g_1", <<1, 2>>, Null).grids,
             "g_1", <<0, 0>>, Num(7)).grids

ClaimGridRedis(foreign) ==
  LET a == RedisCreateGrid(EmptyMap, "g_1", <<1, 2>>, Null).db
      b == ClaimScript(a, cellsKey("g_1"), CoordKey(<<0, 0>>), JsonMarshal(Num(7))).db
  IN  IF foreign = <<>> THEN b
      ELSE HSet(b, cellsKey("g_1"), CoordKey(foreign), JsonMarshal(Num(7)))

ClaimInit ==
  /\ backend \in {"mem", "redis"}
  /\ hasRedis \in BOOLEAN
  /\ grids = IF backend = "mem" THEN ClaimGridMem ELSE EmptyMap
  /\ rdb \in IF backend = "redis"
             THEN {ClaimGridRedis(c) : c \in ForeignCoords} ELSE {EmptyMap}
  /\ InitProcs(Handlers)
  /\ todo = EmptyMap
  /\ out = EmptyMap
  /\ held = [k \in {<<"g_1", <<0, 0>>>>} |-> Num(7)]
  /\ faults = 0
  /\ ws = EmptyMap
  /\ codec = NoCodec
  /\ mu = NoLock
  /\ client = NoClient

ClaimNext ==
  \E p \in Handlers :
    \/ SetCell(p)
    \/ SetCellScript(p)
    \/ Publish(p)

SpecClaim == ClaimInit /\ [][ClaimNext]_vars

\* the error SetCell owes a claim as the store is: the grid first, then the
\* length of the coordinate, then its bounds, then the cell
ClaimError(r) ==
  IF r.id \notin ExistingIDs THEN ErrGridNotFound
  ELSE IF Len(r.coord) # Len(DimsOf(r.id)) THEN ErrDimensionMismatch
  ELSE IF \E i \in 1..Len(r.coord) : r.coord[i] < 0 \/ r.coord[i] >= DimsOf(r.id)[i]
  THEN ErrOutOfBounds
  ELSE IF CoordKey(r.coord) \in DOMAIN StoredCells(r.id) THEN ErrCellAlreadySet
  ELSE NoErr

\* a claim over HTTP without a coordinate is answered 400 with no call of
\* the store; every SetCell that returns, returns the first error of the
\* order that applies; ErrCellAlreadySet comes only for a coordinate inside
\* an existing grid
ClaimPrecedenceStep ==
  /\ (/\ last'.seq # last.seq
      /\ last'.req.op = "claim" /\ last'.req.via = "http" /\ last'.req.http = "ok"
      /\ Len(last'.req.coord) = 0) =>
        /\ ~last'.called /\ last'.status = 400
        /\ StoreUnchanged
  /\ (StoreReturns /\ RetReq.op = "claim") =>
        /\ RetErr = ClaimError(RetReq)
        /\ RetErr = ErrCellAlreadySet =>
             /\ RetReq.id \in ExistingIDs
             /\ Within(DimsOf(RetReq.id), RetReq.coord)

\* C32 (error precedence of a claim request): a missing or empty coordinate
\* is rejected with 400 before the store is consulted, also for an unknown
\* grid; otherwise GridNotFound comes before DimensionMismatch, that before
\* OutOfBounds and that before CellAlreadySet, which is only returned for
\* an in-bounds coordinate of an existing grid.
ClaimPrecedence == [][ClaimPrecedenceStep]_vars

\* a claim of [1, 1], outside g_1 and with a field in its cells, was
\* answered OutOfBounds
OutOfBoundsBeforeSet ==
  /\ last.req.op = "claim" /\ last.req.id = "g_1" /\ last.req.coord = <<1, 1>>
  /\ last.called /\ last.err = ErrOutOfBounds
  /\ CoordKey(<<1, 1>>) \in DOMAIN StoredCells("g_1")

(***************************************************************************)
(* store.go:16-23: the Store interface, with MemStore and RedisStore run   *)
(* side by side.  Each call goes to both stores with the same arguments    *)
(* and, for CreateGrid, the same generated identifier; out keeps the last  *)
(* answer of each store.  The value of a call is an interface{}: what      *)
(* encoding/json decodes (a string, a float64, nil), or a Go value of the  *)
(* caller, here an int and a float64 NaN.                                  *)
(***************************************************************************)
GoInt(n) == [t |-> "int", s |-> <<>>, n |-> n]
NaN == [t |-> "NaN", s |-> <<>>, n |-> 0]

IsJsonValue(v) == v.t \in {"string", "number", "nil"}

GoValues == Values \cup {Null, GoInt(7), NaN}

ErrMarshal == "json: unsupported value"

\* json.Marshal of any Go value: an int is written as its digits, NaN is
\* refused
JsonMarshalAny(v) ==
  IF v.t = "NaN" THEN [err |-> TRUE, text |-> <<>>]
  ELSE IF v.t = "int" THEN [err |-> FALSE, text |-> Itoa(v.n)]
  ELSE [err |-> FALSE, text |-> JsonMarshal(v)]

\* RedisStore.CreateGrid as a whole
RedisCreateGridCall(db, id, dims, def) ==
  IF CheckDimensions(dims) # NoErr THEN [err |-> CheckDimensions(dims), db |-> db]
  ELSE IF def.t # "nil" /\ JsonMarshalAny(def).err THEN [err |-> ErrMarshal, db |-> db]
  ELSE [err |-> NoErr,
        db |-> HSet(HSet(db, metaKey(id), "dimensions", EncodeDimensions(dims)),
                    metaKey(id), "default",
                    IF def.t = "nil" THEN <<>> ELSE JsonMarshalAny(def).text)]

\* RedisStore.SetCell as a whole: the checks, json.Marshal, the script
RedisSetCellCall(db, id, coord, val) ==
  IF RedisCheckCell(db, id, coord) # NoErr
  THEN [err |-> RedisCheckCell(db, id, coord), db |-> db]
  ELSE IF JsonMarshalAny(val).err THEN [err |-> ErrMarshal, db |-> db]
  ELSE LET m == ClaimScript(db, cellsKey(id), CoordKey(coord), JsonMarshalAny(val).text)
       IN  [err |-> IF m.res = 0 THEN ErrCellAlreadySet ELSE NoErr, db |-> m.db]

\* RedisStore.ReleaseCell as a whole
RedisReleaseCellCall(db, id, coord) ==
  IF RedisCheckCell(db, id, coord) # NoErr
  THEN [err |-> RedisCheckCell(db, id, coord), db |-> db]
  ELSE [err |-> NoErr, db |-> HDel(db, cellsKey(id), CoordKey(coord))]

\* RedisStore.ListCells as a whole
RedisListCellsCall(db, id) ==
  IF RedisGetGrid(db, id).err # NoErr
  THEN [err |-> RedisGetGrid(db, id).err, lists |-> {<<>>}]
  ELSE [err |-> NoErr, lists |-> RedisListCells(db, id)]

StoreNames == {"mem", "redis"}

\* the default values and coordinates of the calls: a coordinate of the wrong
\* length, the two cells of a 1 x 2 grid, and two outside it
PairDefaults == {Null, Str(<<"7">>), NaN}

PairCoords == {<<0>>, <<0, 0>>, <<0, 1>>, <<1, 0>>, <<0, -1>>}

PairInit ==
  /\ backend = "both"
  /\ hasRedis = TRUE
  /\ grids = EmptyMap
  /\ rdb = EmptyMap
  /\ InitProcs(Handlers)
  /\ todo = EmptyMap
  /\ out = [s \in StoreNames |-> <<NoResp>>]
  /\ held = EmptyMap
  /\ faults = 0
  /\ ws = EmptyMap
  /\ codec = NoCodec
  /\ mu = NoLock
  /\ client = NoClient

\* the answers of the two stores to the call r
BothAnswer(r, memErr, memCells, redisErr, redisCells) ==
  /\ out' = [s \in StoreNames |->
               IF s = "mem"
               THEN <<Resp(r, TRUE, memErr, 0, FALSE, NoGrid, memCells, NoEvent)>>
               ELSE <<Resp(r, TRUE, redisErr, 0, FALSE, NoGrid, redisCells, NoEvent)>>]
  /\ UNCHANGED <<backend, hasRedis, codec, mu, client, pc, req, loc, last, todo, held, faults, ws>>

PairCreateGrid ==
  \E dims \in DimChoices, def \in PairDefaults,
     id \in IF GenIDs \ DOMAIN grids # {} THEN GenIDs \ DOMAIN grids ELSE {"g_none"} :
    LET m == MemCreateGrid(grids, id, dims, def)
        d == RedisCreateGridCall(rdb, id, dims, def)
    IN  /\ id \notin GenIDs => CheckDimensions(dims) # NoErr
        /\ grids' = m.grids
        /\ rdb' = d.db
        /\ BothAnswer(Req("create", "store", "ok", id, <<>>, def, dims),
                    m.err, <<>>, d.err, <<>>)

PairGetGrid ==
  \E id \in GridIDs :
    /\ UNCHANGED <<grids, rdb>>
    /\ BothAnswer(Req("get", "store", "ok", id, <<>>, Null, <<>>),
                MemGetGrid(grids, id).err, <<>>, RedisGetGrid(rdb, id).err, <<>>)

PairSetCell ==
  \E id \in GridIDs, coord \in PairCoords, val \in GoValues :
    LET m == MemSetCell(grids, id, coord, val)
        d == RedisSetCellCall(rdb, id, coord, val)
    IN  /\ grids' = m.grids
        /\ rdb' = d.db
        /\ BothAnswer(Req("claim", "store", "ok", id, coord, val, <<>>),
                    m.err, <<>>, d.err, <<>>)

PairReleaseCell ==
  \E id \in GridIDs, coord \in PairCoords :
    LET m == MemReleaseCell(grids, id, coord)
        d == RedisReleaseCellCall(rdb, id, coord)
    IN  /\ grids' = m.grids
        /\ rdb' = d.db
        /\ BothAnswer(Req("release", "store", "ok", id, coord, Null, <<>>),
                    m.err, <<>>, d.err, <<>>)

PairListCells ==
  \E id \in GridIDs :
    \E mc \in MemListCells(grids, id).lists, dc \in RedisListCellsCall(rdb, id).lists :
      /\ UNCHANGED <<grids, rdb>>
      /\ BothAnswer(Req("list", "store", "ok", id, <<>>, Null, <<>>),
                  MemListCells(grids, id).err, mc, RedisListCellsCall(rdb, id).err, dc)

PairNext ==
  \/ PairCreateGrid
  \/ PairGetGrid
  \/ PairSetCell
  \/ PairReleaseCell
  \/ PairListCells

SpecPair == PairInit /\ [][PairNext]_vars

\* the set of (coord, value) pairs of a list of cells
CellSet(cells) == {cells[i] : i \in 1..Len(cells)}

MemAnswer == out["mem"][1]
RedisAnswer == out["redis"][1]

\* every value MemStore holds, and the value of the last call, is one that
\* encoding/json decodes
JsonValuesOnly ==
  /\ IsJsonValue(MemAnswer.req.val)
  /\ \A id \in DOMAIN grids :
       /\ IsJsonValue(grids[id].DefaultVal)
       /\ \A k \in DOMAIN grids[id].Cells : IsJsonValue(grids[id].Cells[k])

FrameGridsMem ==
  MemSetCell(MemCreateGrid(EmptyMap, "g_2", <<1, 2>>, Str(<<"7">>)).grids,
             "g_2", <<0, 0>>, Num(7)).grids

FrameGridsRedis ==
  ClaimScript(RedisCreateGrid(EmptyMap, "g_2", <<1, 2>>, Str(<<"7">>)).db,
              cellsKey("g_2"), CoordKey(<<0, 0>>), JsonMarshal(Num(7))).db

FrameInit ==
  /\ backend \in {"mem", "redis"}
  /\ hasRedis \in BOOLEAN
  /\ grids = IF backend = "mem" THEN FrameGridsMem ELSE EmptyMap
  /\ rdb = IF backend = "redis" THEN FrameGridsRedis ELSE EmptyMap
  /\ InitProcs(Handlers)
  /\ todo = EmptyMap
  /\ out = EmptyMap
  /\ held = [k \in {<<"g_2", <<0, 0>>>>} |-> Num(7)]
  /\ faults = 0
  /\ ws = EmptyMap
  /\ codec = NoCodec
  /\ mu = NoLock
  /\ client = NoClient

SpecFrame == FrameInit /\ [][Next]_vars

\* the cells a store holds for a grid, key -> stored form
CellsIn(gs, db, id) ==
  IF backend = "mem"
  THEN IF id \in DOMAIN gs THEN gs[id].Cells ELSE EmptyMap
  ELSE HGetAll(db, cellsKey(id))

\* a CreateGrid that succeeds adds the grid it returns, which was not there
\* and has no cell, and no other; every grid that was there keeps what
\* GetGrid reports of it and the cells it holds
CreateFrameStep ==
  (StoreReturns /\ RetReq.op = "create" /\ RetErr = NoErr) =>
    /\ last'.g.ID \notin GridsIn(grids, rdb)
    /\ GridsIn(grids', rdb') = GridsIn(grids, rdb) \cup {last'.g.ID}
    /\ CellsIn(grids', rdb', last'.g.ID) = EmptyMap
    /\ \A id \in GridsIn(grids, rdb) :
         /\ GetGridIn(grids', rdb', id) = GetGridIn(grids, rdb, id)
         /\ CellsIn(grids', rdb', id) = CellsIn(grids, rdb, id)

\* C34 (frame of CreateGrid): a successful CreateGrid adds exactly one new
\* grid, with no claimed cell, and leaves the dimensions, the default value
\* and the claimed cells of every grid created before as they were.
CreateFrame == [][CreateFrameStep]_vars

\* g_1 has just been created next to g_2, which holds its claimed cell
CreatedNextToGrid ==
  /\ last.req.op = "create" /\ last.called /\ last.err = NoErr
  /\ GridsIn(grids, rdb) = {"g_1", "g_2"}
  /\ CellsIn(grids, rdb, "g_1") = EmptyMap
  /\ CoordKey(<<0, 0>>) \in DOMAIN CellsIn(grids, rdb, "g_2")
  /\ GetGridIn(grids, rdb, "g_2").g.Dimensions = <<1, 2>>

(***************************************************************************)
(* store.go:27-151: MemStore with its lock.  Each method is run by a       *)
(* goroutine in the steps of its code: Lock or RLock (deferred Unlock),    *)
(* the lookup in s.grids with the checks that follow it, for SetCell the   *)
(* assignment g.Cells[key] = value as a step of its own, and the return,   *)
(* which runs the deferred Unlock.  mu.w is the goroutine holding the      *)
(* write lock (0: none), mu.r the goroutines holding the read lock.        *)
(***************************************************************************)
LockCallers == {1, 2}

\* the methods that take s.mu.Lock(); GetGrid and ListCells take RLock()
Exclusive(op) == op \in {"create", "claim", "release"}

\* sync.RWMutex: Lock waits for no writer and no reader
CanLockAlways(m) == TRUE

CanLock(m) == m.w = 0 /\ m.r = {}

\* RLock waits for no writer
CanRLock(m) == m.w = 0

LockRequests ==
  {Req("create", "store", "ok", "", <<>>, Null, d) : d \in {<<1, 2>>, <<>>}}
    \cup {Req("get", "store", "ok", id, <<>>, Null, <<>>) : id \in GridIDs}
    \cup {Req("list", "store", "ok", id, <<>>, Null, <<>>) : id \in GridIDs}
    \cup {Req("claim", "store", "ok", "g_1", c, v, <<>>) :
            c \in {<<0, 0>>, <<0, 1>>, <<1, 1>>}, v \in Values}
    \cup {Req("release", "store", "ok", "g_1", c, Null, <<>>) :
            c \in {<<0, 0>>, <<1, 1>>}}

LockInit ==
  /\ backend = "mem"
  /\ hasRedis = FALSE
  /\ grids = EmptyMap
  /\ rdb = EmptyMap
  /\ InitProcs(LockCallers)
  /\ todo = EmptyMap
  /\ out = EmptyMap
  /\ held = EmptyMap
  /\ faults = 0
  /\ ws = EmptyMap
  /\ codec = NoCodec
  /\ mu = NoLock
  /\ client = NoClient

\* what a method has found so far: its error, the grid, the cells
Found(err, g, found, cells) == [err |-> err, g |-> g, found |-> found, cells |-> cells]

\* the method is called.  CreateGrid checks the dimensions and builds the
\* grid, with its generated identifier, before it locks (store.go:63-77);
\* the others lock at once
MemEnter(p) ==
  \E r \in LockRequests :
    /\ pc[p] = "idle"
    /\ UNCHANGED <<backend, hasRedis, codec, client, grids, rdb, todo, held, faults, ws>>
    /\ IF r.op = "create" /\ CheckDimensions(r.dims) # NoErr
       THEN /\ UNCHANGED mu
            /\ Respond(p, Resp(r, TRUE, CheckDimensions(r.dims), 0, FALSE, NoGrid,
                               <<>>, NoEvent))
       ELSE \E id \in IF r.op = "create"
                      THEN GenIDs \ (DOMAIN grids \cup {req[q].id : q \in LockCallers})
                      ELSE {r.id} :
              /\ IF Exclusive(r.op)
                 THEN CanLock(mu) /\ mu' = [mu EXCEPT !.w = p]
                 ELSE CanRLock(mu) /\ mu' = [mu EXCEPT !.r = @ \cup {p}]
              /\ pc' = [pc EXCEPT ![p] = "locked"]
              /\ req' = [req EXCEPT ![p] = [r EXCEPT !.id = id]]
              /\ UNCHANGED <<loc, last, out>>

\* the body of the method under the lock: all of it, but for a SetCell that
\* passed its checks, which still has its assignment to make
MemAccess(p) ==
  LET r == req[p]
  IN  /\ pc[p] = "locked"
      /\ UNCHANGED <<backend, hasRedis, codec, client, mu, rdb, req, last, todo, out,
                     held, faults, ws>>
      /\ IF r.op = "create"
         THEN LET m == MemCreateGrid(grids, r.id, r.dims, r.val)
              IN  /\ grids' = m.grids
                  /\ loc' = [loc EXCEPT ![p] = Found(m.err, m.g, FALSE, <<>>)]
                  /\ pc' = [pc EXCEPT ![p] = "unlock"]
         ELSE IF r.op = "get"
         THEN LET m == MemGetGrid(grids, r.id)
              IN  /\ UNCHANGED grids
                  /\ loc' = [loc EXCEPT ![p] = Found(m.err, m.g, FALSE, <<>>)]
                  /\ pc' = [pc EXCEPT ![p] = "unlock"]
         ELSE IF r.op = "list"
         THEN \E cells \in MemListCells(grids, r.id).lists :
                /\ UNCHANGED grids
                /\ loc' = [loc EXCEPT ![p] =
                             Found(MemListCells(grids, r.id).err, NoGrid, FALSE, cells)]
                /\ pc' = [pc EXCEPT ![p] = "unlock"]
         ELSE IF r.op = "release"
         THEN LET m == MemReleaseCell(grids, r.id, r.coord)
              IN  /\ grids' = m.grids
                  /\ loc' = [loc EXCEPT ![p] = Found(m.err, NoGrid, m.found, <<>>)]
                  /\ pc' = [pc EXCEPT ![p] = "unlock"]
         ELSE LET e == MemSetCell(grids, r.id, r.coord, r.val).err
              IN  /\ UNCHANGED grids
                  /\ loc' = [loc EXCEPT ![p] = Found(e, NoGrid, e = ErrCellAlreadySet, <<>>)]
                  /\ pc' = [pc EXCEPT ![p] = IF e = NoErr THEN "write" ELSE "unlock"]

\* store.go:125: g.Cells[key] = value
MemAssign(p) ==
  /\ pc[p] = "write"
  /\ grids' = [grids EXCEPT ![req[p].id].Cells =
                 MapPut(@, CoordKey(req[p].coord), req[p].val)]
  /\ pc' = [pc EXCEPT ![p] = "unlock"]
  /\ UNCHANGED <<backend, hasRedis, codec, client, mu, rdb, req, loc, last, todo, out,
                 held, faults, ws>>

\* the method returns: the deferred Unlock or RUnlock, then the results
MemReturn(p) ==
  /\ pc[p] = "unlock"
  /\ mu' = IF Exclusive(req[p].op) THEN [mu EXCEPT !.w = 0]
           ELSE [mu EXCEPT !.r = @ \ {p}]
  /\ Respond(p, Resp(req[p], TRUE, loc[p].err, 0, loc[p].found, loc[p].g,
                     loc[p].cells, NoEvent))
  /\ UNCHANGED <<backend, hasRedis, codec, client, grids, rdb, todo, held, faults, ws>>

LockNext ==
  \E p \in LockCallers :
    \/ MemEnter(p)
    \/ MemAccess(p)
    \/ MemAssign(p)
    \/ MemReturn(p)

SpecLock == LockInit /\ [][LockNext]_vars

\* the goroutines between the lock and the unlock of a method, where the
\* reads and writes of s.grids and g.Cells are
InMethod(p) == pc[p] \in {"locked", "write", "unlock"}

\* a goroutine inside a method holds the lock of that method: the write lock,
\* with no reader, for CreateGrid, SetCell and ReleaseCell, the read lock,
\* with no writer, for GetGrid and ListCells
LockHeld ==
  \A p \in LockCallers :
    InMethod(p) =>
      IF Exclusive(req[p].op) THEN mu.w = p /\ mu.r = {}
      ELSE p \in mu.r /\ mu.w = 0

\* no goroutine is inside a method next to one inside a mutating method
NoInterleaving ==
  \A p, q \in LockCallers :
    (p # q /\ InMethod(p) /\ Exclusive(req[p].op)) => ~InMethod(q)

\* the cell a SetCell found unset is still unset when SetCell assigns it
CheckStillHolds ==
  \A p \in LockCallers :
    pc[p] = "write" =>
      /\ req[p].id \in DOMAIN grids
      /\ CoordKey(req[p].coord) \notin DOMAIN grids[req[p].id].Cells

\* while a goroutine is inside a mutating method, the maps change by its
\* steps only
OwnStepsOnly ==
  \A p \in LockCallers :
    (InMethod(p) /\ Exclusive(req[p].op) /\ grids' # grids) => pc'[p] # pc[p]

\* C35 (MemStore lock discipline): every read or write of the grid map and
\* of a grid's cell map is made with the store's lock held, the write lock
\* for CreateGrid, SetCell and ReleaseCell; no two mutations interleave, and
\* the existence test and the write of SetCell are one atomic step for every
\* other MemStore operation.
LockDiscipline ==
  /\ [](LockHeld /\ NoInterleaving /\ CheckStillHolds)
  /\ [][OwnStepsOnly]_vars

\* a SetCell has passed its test and holds the write lock, after a ListCells
\* that returned; the other goroutine can take neither lock
ClaimWaitsForLock ==
  \E p, q \in LockCallers :
    /\ p # q
    /\ pc[p] = "write" /\ mu.w = p
    /\ pc[q] = "idle"
    /\ last.req.op = "list" /\ last.err = NoErr
    /\ ~CanLock(mu) /\ ~CanRLock(mu)

(***************************************************************************)
(* src/client/src/index.ts: the client's connect(), disconnect() and       *)
(* isConnected().  client.ws is the variable ws of the closure (0: null);  *)
(* client.socks are the WebSockets created so far, each with its           *)
(* readyState, whether its connection was ever established, the promise    *)
(* of the connect() that created it, whether handleOpen and handleError    *)
(* of that connect() are still registered on it, and whether its onclose   *)
(* is set.  A socket's events are tasks of the browser: each runs its      *)
(* handlers to the end, and the continuation of an await runs before the   *)
(* next task.                                                              *)
(***************************************************************************)
MaxSockets == 3

SocketIDs == 1..MaxSockets

NewSocket ==
  [state |-> "CONNECTING", opened |-> FALSE, promise |-> "pending",
   listening |-> TRUE, onclose |-> FALSE]

\* index.ts:83: ws is set and its readyState is OPEN or CONNECTING
Active(c) == c.ws # 0 /\ c.socks[c.ws].state \in {"OPEN", "CONNECTING"}

\* index.ts:137-139
isConnected == client.ws # 0 /\ client.socks[client.ws].state = "OPEN"

\* WebSocket.close(): a socket that is connecting or open starts closing
CloseSocket(sock) ==
  IF sock.state \in {"CONNECTING", "OPEN"} THEN [sock EXCEPT !.state = "CLOSING"]
  ELSE sock

\* handleOpen and handleError, up to the settling of the promise: nothing
\* when ws is null; else the listeners are removed from the socket ws refers
\* to and the promise of the socket s, if it is pending, is settled as how
Settle(c, s, how) ==
  IF c.ws = 0 THEN c
  ELSE [c EXCEPT !.socks[s].promise = IF @ = "pending" THEN how ELSE @,
                 !.socks[s].listening = IF c.ws = s THEN FALSE ELSE @]

\* index.ts:115-128: connect() after its await: onclose is set on the socket
\* ws refers to
AfterAwait(c) ==
  IF c.ws = 0 THEN c ELSE [c EXCEPT !.socks[c.ws].onclose = TRUE]

\* the close event of the socket s: its onclose, if set, makes ws null,
\* whichever socket ws refers to
OnClose(c, s) ==
  IF c.socks[s].onclose
  THEN [c EXCEPT !.ws = 0, !.late = @ \/ c.ws \notin {0, s}]
  ELSE c

ClientInit ==
  /\ backend = "redis"
  /\ hasRedis = TRUE
  /\ grids = EmptyMap
  /\ rdb = EmptyMap
  /\ InitProcs(Handlers)
  /\ todo = EmptyMap
  /\ out = EmptyMap
  /\ held = EmptyMap
  /\ faults = 0
  /\ ws = EmptyMap
  /\ codec = NoCodec
  /\ mu = NoLock
  /\ client = NoClient

ServerUnchanged ==
  UNCHANGED <<backend, hasRedis, codec, mu, grids, rdb, pc, req, loc, last, todo, out,
              held, faults, ws>>

\* connect(): returns at once if the socket is open or connecting, else
\* creates a socket and waits for its open or error event
Connect ==
  /\ ServerUnchanged
  /\ IF Active(client) THEN UNCHANGED client
     ELSE /\ Len(client.socks) < MaxSockets
          /\ client' = [client EXCEPT !.socks = Append(@, NewSocket),
                                      !.ws = Len(client.socks) + 1]

\* disconnect(): closes the socket ws refers to and forgets it
Disconnect ==
  /\ ServerUnchanged
  /\ client' = IF client.ws = 0 THEN client
               ELSE [client EXCEPT !.socks[client.ws] = CloseSocket(@), !.ws = 0]

\* the connection of s is established: readyState OPEN and the open event;
\* handleOpen resolves, and connect() goes on after its await
SocketOpen(s) ==
  /\ s \in DOMAIN client.socks
  /\ client.socks[s].state = "CONNECTING"
  /\ ServerUnchanged
  /\ LET a == [client EXCEPT !.socks[s].state = "OPEN", !.socks[s].opened = TRUE]
         b == IF a.socks[s].listening THEN Settle(a, s, "resolved") ELSE a
     IN  client' = IF b.socks[s].promise = "resolved" /\ a.socks[s].promise = "pending"
                   THEN AfterAwait(b) ELSE b

\* the connection of s fails before it is established, by itself or because
\* close() was called: readyState CLOSED, the error event, the close event
SocketFail(s) ==
  /\ s \in DOMAIN client.socks
  /\ client.socks[s].state \in {"CONNECTING", "CLOSING"}
  /\ ~client.socks[s].opened
  /\ ServerUnchanged
  /\ LET a == [client EXCEPT !.socks[s].state = "CLOSED"]
         b == IF a.socks[s].listening THEN Settle(a, s, "rejected") ELSE a
     IN  client' = OnClose(b, s)

\* the established connection of s ends, closed by the peer or after
\* close(): readyState CLOSED, the error event if it did not end cleanly,
\* the close event
SocketClose(s) ==
  \E clean \in BOOLEAN :
    /\ s \in DOMAIN client.socks
    /\ client.socks[s].state \in {"OPEN", "CLOSING"}
    /\ client.socks[s].opened
    /\ ServerUnchanged
    /\ LET a == [client EXCEPT !.socks[s].state = "CLOSED"]
           b == IF ~clean /\ a.socks[s].listening THEN Settle(a, s, "rejected") ELSE a
       IN  client' = OnClose(b, s)

ClientNext ==
  \/ Connect
  \/ Disconnect
  \/ \E s \in SocketIDs : SocketOpen(s)
  \/ \E s \in SocketIDs : SocketFail(s)
  \/ \E s \in SocketIDs : SocketClose(s)

SpecClient == ClientInit /\ [][ClientNext]_vars

\* a socket that is connecting opens or fails, and one that is closing ends
SocketSettles(s) ==
  \/ SocketOpen(s)
  \/ SocketFail(s)
  \/ SocketClose(s) /\ client.socks[s].state = "CLOSING"

ClientFairness == \A s \in SocketIDs : WF_vars(SocketSettles(s))

SpecClientLive == ClientInit /\ [][ClientNext]_vars /\ ClientFairness

Pending(s) == s \in DOMAIN client.socks /\ client.socks[s].promise = "pending"

Settled(s) == s \in DOMAIN client.socks /\ client.socks[s].promise # "pending"

\* C36, as stated: every connect() that waits on a socket eventually
\* resolves or rejects, disconnect() while the socket is connecting included
ConnectSettles == \A s \in SocketIDs : Pending(s) ~> Settled(s)

\* C36, for a socket the client keeps: every connect() that waits on a
\* socket eventually resolves or rejects, unless ws stops referring to that
\* socket while it waits
ConnectSettlesIfKept ==
  \A s \in SocketIDs : Pending(s) ~> (Settled(s) \/ client.ws # s)

\* a connect() has been rejected on the failure of its socket, and a second
\* one resolved
RejectedThenResolved ==
  /\ Len(client.socks) >= 2
  /\ client.socks[1].promise = "rejected" /\ client.socks[1].state = "CLOSED"
  /\ client.socks[2].promise = "resolved" /\ client.socks[2].state = "OPEN"
  /\ client.ws = 2

\* C37, as stated: a socket whose connect() resolved and that is open is the
\* socket the client refers to, so that isConnected() is true and
\* disconnect() closes it, whenever the close event of an older socket comes
TracksSocket ==
  \A s \in DOMAIN client.socks :
    (client.socks[s].state = "OPEN" /\ client.socks[s].promise = "resolved") =>
      client.ws = s /\ isConnected

\* C37, for a close event that comes in time: as long as no onclose has run
\* while ws referred to a newer socket, a socket whose connect() resolved and
\* that is open is the socket the client refers to
TracksSocketIfCloseInTime == ~client.late => TracksSocket

\* the second socket is open and referred to, after the first was opened,
\* closed by disconnect() and its close event handled before the second
\* was created
ReconnectedInTime ==
  /\ Len(client.socks) >= 2
  /\ client.socks[1].opened /\ client.socks[1].onclose
  /\ client.socks[1].state = "CLOSED"
  /\ client.socks[2].state = "OPEN" /\ client.socks[2].promise = "resolved"
  /\ client.ws = 2 /\ isConnected
  /\ ~client.late

=============================================================================
